---- MODULE Spec2Model ----
(***************************************************************************)
(* GiHaNotis: the request/response store, the accept/unaccept              *)
(* reconciliation handlers and the validators of src/app.py,               *)
(* src/validation.py and src/db.py.                                        *)
(*                                                                         *)
(* The database is PostgreSQL reached through psycopg2 with the default    *)
(* isolation level, READ COMMITTED: a statement sees the rows committed    *)
(* before it starts plus its own transaction's writes, a plain SELECT      *)
(* takes no row lock, and an UPDATE waits for the row lock and then        *)
(* applies to the latest committed version of the row.                     *)
(***************************************************************************)
EXTENDS Integers, Sequences, FiniteSets, TLC

(***************************************************************************)
(* Bounds of the model.                                                    *)
(***************************************************************************)
MaxRequests == 2
MaxResponses == 2
MaxCalls == 7
MaxConcurrentCalls == 2
MaxReconcileCalls == 4
MaxConn == 2
MaxDbCalls == 3
MaxStatements == 2
MaxAdminCalls == 3
MaxPoolCalls == 8
MaxScopeCalls == 3
NumProcs == 2

Procs == 1..NumProcs

(***************************************************************************)
(* Program constants.                                                      *)
(***************************************************************************)
MAX_QUANTITY == 1000000
MAX_ITEM_NAME == 255
MIN_ITEM_NAME == 2
MAX_UNIT == 50
MAX_DESCRIPTION == 5000
MAX_LOCATION == 500
MIN_LOCATION == 3
MAX_RESPONDER == 255
MAX_NOTES == 2000

ADMIN_USERNAME == "admin"
ADMIN_PASSWORD == "changeme123"

(***************************************************************************)
(* JSON values of a request body: an integer, a string or null.            *)
(***************************************************************************)
JInt(n) == [t |-> "int", v |-> n]
JStr(s) == [t |-> "str", v |-> s]
JNull == [t |-> "null", v |-> 0]

IsInt(j) == j.t = "int"

\* Python truthiness of a JSON value (0, "" and None are falsy)
Truthy(j) ==
    CASE j.t = "int" -> j.v # 0
      [] j.t = "str" -> j.v # ""
      [] OTHER -> FALSE

Max(a, b) == IF a >= b THEN a ELSE b

(***************************************************************************)
(* Text helpers: str.strip(), str.lower() and re.sub(pattern, '', ...).    *)
(***************************************************************************)
Upper == "ABCDEFGHIJKLMNOPQRSTUVWXYZ"
Lower == "abcdefghijklmnopqrstuvwxyz"

RECURSIVE IndexIn(_, _, _)
IndexIn(c, s, i) ==
    IF i > Len(s) THEN 0
    ELSE IF SubSeq(s, i, i) = c THEN i
    ELSE IndexIn(c, s, i + 1)

LowerChar(c) ==
    LET k == IndexIn(c, Upper, 1)
    IN  IF k = 0 THEN c ELSE SubSeq(Lower, k, k)

RECURSIVE LowerStr(_)
LowerStr(s) ==
    IF s = "" THEN ""
    ELSE LowerChar(SubSeq(s, 1, 1)) \o LowerStr(SubSeq(s, 2, Len(s)))

IsSpace(c) == c \in {" ", "\t", "\n", "\r"}

RECURSIVE LStrip(_)
LStrip(s) ==
    IF s = "" THEN ""
    ELSE IF IsSpace(SubSeq(s, 1, 1)) THEN LStrip(SubSeq(s, 2, Len(s)))
    ELSE s

RECURSIVE RStrip(_)
RStrip(s) ==
    IF s = "" THEN ""
    ELSE IF IsSpace(SubSeq(s, Len(s), Len(s))) THEN RStrip(SubSeq(s, 1, Len(s) - 1))
    ELSE s

Strip(s) == RStrip(LStrip(s))

\* TRUE when the literal lit (lower case) occurs in s at position i, ignoring case
MatchesAt(s, i, lit) ==
    /\ i + Len(lit) - 1 <= Len(s)
    /\ LowerStr(SubSeq(s, i, i + Len(lit) - 1)) = lit

\* first position in lo..hi where lit occurs in s ignoring case, 0 when there is none
RECURSIVE FindBetween(_, _, _, _)
FindBetween(s, lo, hi, lit) ==
    IF lo > hi THEN 0
    ELSE IF lo = hi THEN (IF MatchesAt(s, lo, lit) THEN lo ELSE 0)
    ELSE LET mid   == (lo + hi) \div 2
             first == FindBetween(s, lo, mid, lit)
         IN  IF first # 0 THEN first ELSE FindBetween(s, mid + 1, hi, lit)

\* first position >= i where lit occurs in s ignoring case, 0 when there is none
FindFrom(s, i, lit) == FindBetween(s, i, Len(s) - Len(lit) + 1, lit)

\* re.sub(lit, '', s, flags=IGNORECASE): drop the leftmost non-overlapping matches
RECURSIVE RemoveLiteral(_, _, _)
RemoveLiteral(s, i, lit) ==
    LET k == FindFrom(s, i, lit)
    IN  IF k = 0 THEN SubSeq(s, i, Len(s))
        ELSE SubSeq(s, i, k - 1) \o RemoveLiteral(s, k + Len(lit), lit)

\* end of the match of  <tag[^>]*>.*?</tag>  that starts at i, 0 when it does not match
TagMatchEnd(s, i, tag) ==
    LET open  == "<" \o tag
        close == "</" \o tag \o ">"
    IN  IF ~MatchesAt(s, i, open) THEN 0
        ELSE LET gt == FindFrom(s, i + Len(open), ">")
             IN  IF gt = 0 THEN 0
                 ELSE LET k == FindFrom(s, gt + 1, close)
                      IN  IF k = 0 THEN 0 ELSE k + Len(close) - 1

\* first position in lo..hi where <tag[^>]*>.*?</tag> matches, 0 when there is none
RECURSIVE FindTagBetween(_, _, _, _)
FindTagBetween(s, lo, hi, tag) ==
    IF lo > hi THEN 0
    ELSE IF lo = hi THEN (IF TagMatchEnd(s, lo, tag) # 0 THEN lo ELSE 0)
    ELSE LET mid   == (lo + hi) \div 2
             first == FindTagBetween(s, lo, mid, tag)
         IN  IF first # 0 THEN first ELSE FindTagBetween(s, mid + 1, hi, tag)

\* re.sub(r'<tag[^>]*>.*?</tag>', '', s, flags=IGNORECASE | DOTALL)
RECURSIVE RemoveTag(_, _, _)
RemoveTag(s, i, tag) ==
    LET k == FindTagBetween(s, i, Len(s), tag)
    IN  IF k = 0 THEN SubSeq(s, i, Len(s))
        ELSE SubSeq(s, i, k - 1) \o RemoveTag(s, TagMatchEnd(s, k, tag) + 1, tag)

sanitize_html(text) ==
    IF text = "" THEN text
    ELSE LET r1 == RemoveTag(text, 1, "script")
             r2 == RemoveTag(r1, 1, "iframe")
             r3 == RemoveLiteral(r2, 1, "javascript:")
             r4 == RemoveLiteral(r3, 1, "onerror=")
             r5 == RemoveLiteral(r4, 1, "onload=")
         IN  r5

(***************************************************************************)
(* src/validation.py.  A request body is a mapping from field names to     *)
(* JSON values; the text fields of the bodies enumerated below are JSON    *)
(* strings, the quantity fields are JSON integers or strings.              *)
(* Each validator yields the message of the first ValidationError raised,  *)
(* "" when none is raised, and the body as the validator leaves it.        *)
(***************************************************************************)
Has(data, f) == f \in DOMAIN data

ItemNameError(data) ==
    IF ~Has(data, "item_name") THEN ""
    ELSE LET item_name == data["item_name"].v
         IN  IF item_name = "" \/ Strip(item_name) = "" THEN "Item name cannot be empty"
             ELSE IF Len(item_name) > MAX_ITEM_NAME THEN "Item name too long (max 255 characters)"
             ELSE IF Len(item_name) < MIN_ITEM_NAME THEN "Item name too short (min 2 characters)"
             ELSE ""

\* the upper limit taken as exclusive
QuantityNeededError_Exclusive(data) ==
    IF ~Has(data, "quantity_needed") THEN ""
    ELSE LET quantity == data["quantity_needed"]
         IN  IF ~IsInt(quantity) THEN "Quantity must be an integer"
             ELSE IF quantity.v < 0 THEN "Quantity cannot be negative"
             ELSE IF quantity.v >= MAX_QUANTITY THEN "Quantity too large (max 1,000,000)"
             ELSE ""

QuantityNeededError(data) ==
    IF ~Has(data, "quantity_needed") THEN ""
    ELSE LET quantity == data["quantity_needed"]
         IN  IF ~IsInt(quantity) THEN "Quantity must be an integer"
             ELSE IF quantity.v < 0 THEN "Quantity cannot be negative"
             ELSE IF quantity.v > MAX_QUANTITY THEN "Quantity too large (max 1,000,000)"
             ELSE ""

UnitError(data) ==
    IF ~Has(data, "unit") THEN ""
    ELSE LET unit == data["unit"].v
         IN  IF unit = "" \/ Strip(unit) = "" THEN "Unit cannot be empty"
             ELSE IF Len(unit) > MAX_UNIT THEN "Unit too long (max 50 characters)"
             ELSE ""

DescriptionError(data) ==
    IF ~(Has(data, "description") /\ Truthy(data["description"])) THEN ""
    ELSE IF Len(data["description"].v) > MAX_DESCRIPTION
         THEN "Description too long (max 5000 characters)"
         ELSE ""

FirstError(errs) ==
    LET bad == {i \in 1..Len(errs) : errs[i] # ""}
    IN  IF bad = {} THEN ""
        ELSE errs[CHOOSE i \in bad : \A j \in bad : i <= j]

validate_request_error(data) ==
    FirstError(<<ItemNameError(data), QuantityNeededError(data),
                 UnitError(data), DescriptionError(data)>>)

\* the body after validate_request_data returned normally
validate_request_data(data) ==
    [f \in DOMAIN data |->
        IF f = "item_name" THEN JStr(sanitize_html(data[f].v))
        ELSE IF f = "description" /\ Truthy(data[f]) THEN JStr(sanitize_html(data[f].v))
        ELSE data[f]]

\* the check that lets a quantity of zero through
QuantityAvailableError_ZeroAllowed(data) ==
    IF ~Has(data, "quantity_available") THEN ""
    ELSE LET quantity == data["quantity_available"]
         IN  IF ~IsInt(quantity) THEN "Quantity must be an integer"
             ELSE IF quantity.v < 0 THEN "Quantity must be greater than 0"
             ELSE IF quantity.v > MAX_QUANTITY THEN "Quantity too large (max 1,000,000)"
             ELSE ""

QuantityAvailableError(data) ==
    IF ~Has(data, "quantity_available") THEN ""
    ELSE LET quantity == data["quantity_available"]
         IN  IF ~IsInt(quantity) THEN "Quantity must be an integer"
             ELSE IF quantity.v <= 0 THEN "Quantity must be greater than 0"
             ELSE IF quantity.v > MAX_QUANTITY THEN "Quantity too large (max 1,000,000)"
             ELSE ""

LocationError(data) ==
    IF ~Has(data, "location") THEN ""
    ELSE LET location == data["location"].v
         IN  IF location = "" \/ Strip(location) = "" THEN "Location cannot be empty"
             ELSE IF Len(location) > MAX_LOCATION THEN "Location too long (max 500 characters)"
             ELSE IF Len(location) < MIN_LOCATION THEN "Location too short (min 3 characters)"
             ELSE ""

CappedTextError(data, f, cap, msg) ==
    IF ~(Has(data, f) /\ Truthy(data[f])) THEN ""
    ELSE IF Len(data[f].v) > cap THEN msg ELSE ""

validate_response_error(data) ==
    FirstError(<<QuantityAvailableError(data), LocationError(data),
                 CappedTextError(data, "responder_name", MAX_RESPONDER,
                                 "Name too long (max 255 characters)"),
                 CappedTextError(data, "responder_contact", MAX_RESPONDER,
                                 "Contact info too long (max 255 characters)"),
                 CappedTextError(data, "notes", MAX_NOTES,
                                 "Notes too long (max 2000 characters)")>>)

\* the body after validate_response_data returned normally
validate_response_data(data) ==
    [f \in DOMAIN data |->
        IF f = "location" THEN JStr(sanitize_html(data[f].v))
        ELSE IF f \in {"responder_name", "notes"} /\ Truthy(data[f])
             THEN JStr(sanitize_html(data[f].v))
        ELSE data[f]]

\* first of the required fields that the body lacks, "" when it has them all
MissingField(data, required_fields) ==
    LET bad == {i \in 1..Len(required_fields) : ~Has(data, required_fields[i])}
    IN  IF bad = {} THEN ""
        ELSE required_fields[CHOOSE i \in bad : \A j \in bad : i <= j]

\* data.get(f, '').strip() if data.get(f) else dflt
GetStripped(data, f, dflt) ==
    IF Has(data, f) /\ Truthy(data[f]) THEN JStr(Strip(data[f].v)) ELSE dflt

(***************************************************************************)
(* validate_pagination_params.  int(x) of a string accepts surrounding     *)
(* white space, one sign and decimal digits; int(x) of an integer is x.    *)
(* (An underscore between digits, which int() also accepts, is not among   *)
(* the arguments the calls are made with.)                                 *)
(***************************************************************************)
Digits == "0123456789"

\* the number a string of decimal digits denotes, -1 when it is not one
RECURSIVE DigitsValue(_, _)
DigitsValue(s, acc) ==
    IF s = "" THEN acc
    ELSE LET d == IndexIn(SubSeq(s, 1, 1), Digits, 1) - 1
         IN  IF d < 0 THEN -1 ELSE DigitsValue(SubSeq(s, 2, Len(s)), 10 * acc + d)

\* int(s) of a string: ok is FALSE when int() raises ValueError
ParseInt(s) ==
    LET t      == Strip(s)
        signed == t # "" /\ SubSeq(t, 1, 1) \in {"+", "-"}
        body   == IF signed THEN SubSeq(t, 2, Len(t)) ELSE t
        n      == IF body = "" THEN -1 ELSE DigitsValue(body, 0)
    IN  IF n < 0 THEN [ok |-> FALSE, v |-> 0]
        ELSE [ok |-> TRUE, v |-> IF signed /\ SubSeq(t, 1, 1) = "-" THEN 0 - n ELSE n]

\* int(x) if x else dflt
PyInt(x, dflt) ==
    IF ~Truthy(x) THEN [ok |-> TRUE, v |-> dflt]
    ELSE IF x.t = "int" THEN [ok |-> TRUE, v |-> x.v]
    ELSE ParseInt(x.v)

DEFAULT_PAGE == 1
DEFAULT_PER_PAGE == 50
MAX_PER_PAGE == 100

\* the message of the ValidationError raised ("" when none) and the pair returned
validate_pagination_params(page, per_page) ==
    LET p  == PyInt(page, DEFAULT_PAGE)
        pp == PyInt(per_page, DEFAULT_PER_PAGE)
    IN  IF ~p.ok \/ ~pp.ok
        THEN [raised |-> "Invalid pagination parameters", page |-> 0, per_page |-> 0]
        ELSE IF p.v < 1
        THEN [raised |-> "Page must be >= 1", page |-> 0, per_page |-> 0]
        ELSE IF pp.v < 1 \/ pp.v > MAX_PER_PAGE
        THEN [raised |-> "Per page must be between 1 and 100", page |-> 0, per_page |-> 0]
        ELSE [raised |-> "", page |-> p.v, per_page |-> pp.v]

(***************************************************************************)
(* State.  requests and responses are the committed tables; pc, call,     *)
(* local and result are the position, arguments, local variables and HTTP  *)
(* answer of the handler each worker is running; session is the admin's    *)
(* session cookie; workers is the number of workers the server runs and    *)
(* calls_left the number of calls still to come.                           *)
(* last_accept is a history variable: the response the most recently       *)
(* finished call accepted and the quantity_needed that call read, NoRow    *)
(* when the most recently finished call was anything else.                 *)
(* baseline is a history variable too: for each stored request the         *)
(* quantity q0 it was created with, and whether every call finished since  *)
(* then left its quantity_needed exact (no update wrote quantity_needed    *)
(* and no Accept was floored at zero).                                     *)
(***************************************************************************)
VARIABLES requests, responses, next_request_id, next_response_id,
          session, workers, calls_left, pc, call, local, result, last_accept,
          checked_out, pending, durable, db_pc, db_call, db_conn, scope,
          connection_pool, pools_created, init_pc, init_args, baseline

vars == <<requests, responses, next_request_id, next_response_id,
          session, workers, calls_left, pc, call, local, result, last_accept,
          checked_out, pending, durable, db_pc, db_call, db_conn, scope,
          connection_pool, pools_created, init_pc, init_args, baseline>>

\* the global _connection_pool of src/db.py, the number of pool objects built so
\* far, and each thread's position in init_connection_pool with its arguments
poolvars == <<connection_pool, pools_created, init_pc, init_args>>

\* the state of src/db.py: the pool, the connections' open transactions, the
\* writes made durable, and each caller's position in a helper of src/db.py
dbvars == <<checked_out, pending, durable, db_pc, db_call, db_conn, scope, poolvars>>

\* the state of src/app.py
appvars == <<requests, responses, next_request_id, next_response_id,
             session, pc, call, local, result, last_accept, baseline>>

db == <<requests, responses, next_request_id, next_response_id>>

\* column defaults of the schema: requests.status and responses.accepted
DEFAULT_STATUS == "open"
DEFAULT_ACCEPTED == FALSE

EmptyBody == [f \in {} |-> JNull]

NoCall == [op |-> "none", id |-> 0, data |-> EmptyBody]
NoRow == [id |-> 0, request_id |-> 0, quantity_available |-> 0,
          accepted |-> FALSE, quantity_needed |-> 0]
NoLocal == [response |-> NoRow, new_quantity |-> 0]
NoResult == [status |-> 0, error |-> "", new_quantity_needed |-> 0, id |-> 0]

Answer(status, error) ==
    [status |-> status, error |-> error, new_quantity_needed |-> 0, id |-> 0]

(***************************************************************************)
(* Request bodies and arguments the calls are made with.                   *)
(***************************************************************************)
RequestIds == 1..(MaxRequests + 1)
ResponseIds == 1..(MaxResponses + 1)

CreateRequestBodies ==
    {[item_name |-> JStr(" a<script></script>b"), quantity_needed |-> JInt(3),
      unit |-> JStr("kg "), description |-> JStr("d")],
     [item_name |-> JStr("ab"), quantity_needed |-> JInt(-1), unit |-> JStr("kg")],
     [item_name |-> JStr("ab"), quantity_needed |-> JInt(3)]}

UpdateRequestBodies ==
    {[quantity_needed |-> q] : q \in {JInt(-1), JStr("abc")}}
    \cup {[status |-> JStr(st)] : st \in {"open", "closed", "archived"}}
    \cup {[created_at |-> JInt(0)]}

CreateResponseBodies ==
    {[quantity_available |-> q, location |-> JStr(" abc"), responder_name |-> JStr("n "),
      notes |-> JStr("")] : q \in {JInt(0), JInt(2), JInt(5)}}
    \cup {[quantity_available |-> JInt(2)],
          [quantity_available |-> JInt(MAX_QUANTITY + 1), location |-> JStr("abc")]}

LoginBodies ==
    {[username |-> JStr(ADMIN_USERNAME), password |-> JStr(ADMIN_PASSWORD)],
     [username |-> JStr(ADMIN_USERNAME), password |-> JStr("guess")],
     [username |-> JStr("root"), password |-> JStr(ADMIN_PASSWORD)],
     [username |-> JStr(ADMIN_USERNAME)]}

\* request.args.get('page', 1), request.args.get('per_page', 50): the default
\* when the query string has no such argument, its text otherwise
PageQueries ==
    {[page |-> JInt(1), per_page |-> JInt(50)],
     [page |-> JStr("2"), per_page |-> JStr("101")],
     [page |-> JStr("abc"), per_page |-> JInt(50)]}

\* the connections of the pool: SimpleConnectionPool(minconn, maxconn)
Connections == 1..MaxConn

NoDbCall == [fn |-> "none", stmt |-> "none", fetch |-> FALSE]

\* what one call of a helper of src/db.py has done so far: statements executed,
\* writes executed, writes made durable, successful commits, rollbacks, how the
\* body of the with block ended, whether conn.commit() failed, and the
\* exception in flight ("" when there is none)
NoScope == [statements |-> 0, writes |-> 0, durable |-> 0, commits |-> 0, rollbacks |-> 0,
            body |-> "none", commit_failed |-> FALSE, failure |-> ""]

\* _connection_pool = None
NoPool == [id |-> 0, minconn |-> 0, maxconn |-> 0]

DEFAULT_MINCONN == 1
DEFAULT_MAXCONN == 10
APP_MINCONN == 2

\* init_connection_pool(minconn=2, maxconn=10), run when src/app.py is imported,
\* has built the pool
InitPoolBuilt ==
    /\ connection_pool = [id |-> 1, minconn |-> APP_MINCONN, maxconn |-> DEFAULT_MAXCONN]
    /\ pools_created = 1
    /\ init_pc = [p \in Procs |-> "idle"]
    /\ init_args = [p \in Procs |-> NoPool]

\* the pool holds all its connections, no transaction is open, no helper runs
InitDbLayer ==
    /\ InitPoolBuilt
    /\ checked_out = {}
    /\ pending = [c \in Connections |-> 0]
    /\ durable = 0
    /\ db_pc = [p \in Procs |-> "idle"]
    /\ db_call = [p \in Procs |-> NoDbCall]
    /\ db_conn = [p \in Procs |-> 0]
    /\ scope = [p \in Procs |-> NoScope]

RECURSIVE SumOf(_, _)
SumOf(f, S) ==
    IF S = {} THEN 0
    ELSE LET x == CHOOSE y \in S : TRUE IN f[x] + SumOf(f, S \ {x})

\* the sum of quantity_available over the accepted responses of request_id
AcceptedSum(request_id) ==
    SumOf([r \in DOMAIN responses |-> responses[r].quantity_available],
          {r \in DOMAIN responses :
              responses[r].request_id = request_id /\ responses[r].accepted})

InitWorkers ==
    /\ baseline = [r \in DOMAIN requests |->
                      [q0 |-> requests[r].quantity_needed + AcceptedSum(r), exact |-> TRUE]]
    /\ pc = [p \in Procs |-> "idle"]
    /\ call = [p \in Procs |-> NoCall]
    /\ local = [p \in Procs |-> NoLocal]
    /\ result = [p \in Procs |-> NoResult]
    /\ last_accept = NoRow
    /\ InitDbLayer

\* an empty database, nobody logged in, one worker: calls are served one after the other
InitSeq ==
    /\ requests = EmptyBody
    /\ responses = EmptyBody
    /\ next_request_id = 1
    /\ next_response_id = 1
    /\ session = [is_admin |-> FALSE, username |-> ""]
    /\ workers = 1
    /\ calls_left = MaxCalls
    /\ InitWorkers

\* the rows POST /api/requests and POST /api/public/requests/1/responses store for
\* the first of CreateRequestBodies and the first kind of CreateResponseBodies
SeedRequest ==
    [item_name |-> "ab", quantity_needed |-> 3, unit |-> "kg",
     description |-> "d", status |-> "open"]

SeedResponse(quantity_available) ==
    [request_id |-> 1, responder_name |-> JStr("n"), responder_contact |-> JNull,
     quantity_available |-> quantity_available, location |-> "abc",
     notes |-> JNull, accepted |-> FALSE]

\* the server starts with NumProcs workers on a database that earlier calls have
\* filled: request 1 with no response yet, or with the responses 1 and 2
Init ==
    /\ requests = (1 :> SeedRequest)
    /\ \/ /\ responses = EmptyBody
          /\ next_response_id = 1
       \/ /\ responses = (1 :> SeedResponse(2)) @@ (2 :> SeedResponse(5))
          /\ next_response_id = 3
    /\ next_request_id = 2
    /\ session = [is_admin |-> TRUE, username |-> ADMIN_USERNAME]
    /\ workers = NumProcs
    /\ calls_left = MaxConcurrentCalls
    /\ InitWorkers

\* one worker on a database that earlier valid calls have filled with large
\* quantities: request 1 needing 600,000, with no response yet or with the
\* responses 1 and 2 offering 1,000,000 each
InitReconcile ==
    /\ requests = (1 :> [SeedRequest EXCEPT !.quantity_needed = 600000])
    /\ \/ /\ responses = EmptyBody
          /\ next_response_id = 1
       \/ /\ responses = (1 :> SeedResponse(MAX_QUANTITY)) @@ (2 :> SeedResponse(MAX_QUANTITY))
          /\ next_response_id = 3
    /\ next_request_id = 2
    /\ session = [is_admin |-> TRUE, username |-> ADMIN_USERNAME]
    /\ workers = 1
    /\ calls_left = MaxReconcileCalls
    /\ InitWorkers

(***************************************************************************)
(* Plumbing shared by the handlers.                                        *)
(***************************************************************************)
\* an idle worker takes the call c
Begin(p, c) ==
    /\ p <= workers
    /\ pc[p] = "idle"
    /\ calls_left > 0
    /\ calls_left' = calls_left - 1
    /\ call' = [call EXCEPT ![p] = c]
    /\ UNCHANGED <<workers, dbvars, baseline>>

\* a later statement of the call the worker is serving
Continue(p, label) ==
    /\ pc[p] = label
    /\ UNCHANGED <<workers, calls_left, call, session, last_accept, dbvars, baseline>>

\* the handler returns res
Return(p, res) ==
    /\ pc' = [pc EXCEPT ![p] = "done"]
    /\ result' = [result EXCEPT ![p] = res]

Goto(p, label) ==
    /\ pc' = [pc EXCEPT ![p] = label]
    /\ UNCHANGED result

\* baseline once the call of worker p, which has answered, is accounted for
BaselineAfter(p) ==
    LET op == call[p].op
        ok == result[p].status \in {200, 201}
    IN  IF ok /\ op = "create_request" /\ result[p].id \in DOMAIN requests
        THEN baseline @@ (result[p].id :>
                 [q0 |-> requests[result[p].id].quantity_needed, exact |-> TRUE])
        ELSE IF ok /\ op = "delete_request"
        THEN [r \in DOMAIN baseline \ {call[p].id} |-> baseline[r]]
        ELSE IF /\ ok /\ op = "update_request" /\ Has(call[p].data, "quantity_needed")
                /\ call[p].id \in DOMAIN baseline
        THEN [baseline EXCEPT ![call[p].id].exact = FALSE]
        ELSE IF /\ ok /\ op = "accept"
                /\ local[p].response.quantity_available > local[p].response.quantity_needed
                /\ local[p].response.request_id \in DOMAIN baseline
        THEN [baseline EXCEPT ![local[p].response.request_id].exact = FALSE]
        ELSE baseline

\* the answer has been sent; the worker is free for the next call
Finish(p) ==
    /\ pc[p] = "done"
    /\ baseline' = BaselineAfter(p)
    /\ last_accept' = IF call[p].op = "accept" /\ result[p].status = 200
                       THEN local[p].response
                       ELSE NoRow
    /\ pc' = [pc EXCEPT ![p] = "idle"]
    /\ call' = [call EXCEPT ![p] = NoCall]
    /\ local' = [local EXCEPT ![p] = NoLocal]
    /\ result' = [result EXCEPT ![p] = NoResult]
    /\ UNCHANGED <<db, session, workers, calls_left, dbvars>>

\* require_admin: the answers that refuse the call (401 to a JSON request, a
\* redirect to the login page otherwise), none when the session is an admin's
require_admin ==
    IF ~session.is_admin
    THEN {Answer(401, "Authentication required"), Answer(302, "")}
    ELSE {}

(***************************************************************************)
(* Row locks of the open transactions.  An UPDATE locks the row it writes  *)
(* until its transaction commits or rolls back.                            *)
(***************************************************************************)
HoldsResponseLock(p, response_id) ==
    /\ pc[p] \in {"accept_update_request", "accept_commit",
                  "unaccept_update_request", "unaccept_commit"}
    /\ local[p].response.id = response_id

HoldsRequestLock(p, request_id) ==
    /\ pc[p] \in {"accept_commit", "unaccept_commit"}
    /\ local[p].response.request_id = request_id

ResponseLockFree(p, response_id) ==
    \A o \in Procs \ {p} : ~HoldsResponseLock(o, response_id)

RequestLockFree(p, request_id) ==
    \A o \in Procs \ {p} : ~HoldsRequestLock(o, request_id)

(***************************************************************************)
(* POST /api/auth/login, POST /api/auth/logout                             *)
(***************************************************************************)
api_login(p, data) ==
    /\ Begin(p, [op |-> "login", id |-> 0, data |-> data])
    /\ IF ~(Has(data, "username") /\ Has(data, "password"))
       THEN /\ Return(p, Answer(400, "Username and password required"))
            /\ UNCHANGED session
       ELSE IF data["username"] = JStr(ADMIN_USERNAME) /\ data["password"] = JStr(ADMIN_PASSWORD)
       THEN /\ session' = [is_admin |-> TRUE, username |-> data["username"].v]
            /\ Return(p, Answer(200, ""))
       ELSE /\ Return(p, Answer(401, "Invalid username or password"))
            /\ UNCHANGED session
    /\ UNCHANGED <<db, local, last_accept>>

api_logout(p) ==
    /\ Begin(p, [op |-> "logout", id |-> 0, data |-> EmptyBody])
    /\ session' = [is_admin |-> FALSE, username |-> ""]
    /\ Return(p, Answer(200, ""))
    /\ UNCHANGED <<db, local, last_accept>>

(***************************************************************************)
(* POST /api/requests                                                      *)
(***************************************************************************)
api_create_request(p, data) ==
    /\ next_request_id <= MaxRequests
    /\ Begin(p, [op |-> "create_request", id |-> 0, data |-> data])
    /\ LET missing == MissingField(data, <<"item_name", "quantity_needed", "unit">>)
           error   == validate_request_error(data)
           clean   == validate_request_data(data)
           row     == [item_name       |-> Strip(clean["item_name"].v),
                       quantity_needed |-> clean["quantity_needed"].v,
                       unit            |-> Strip(clean["unit"].v),
                       description     |-> GetStripped(clean, "description", JStr("")).v,
                       status          |-> DEFAULT_STATUS]
       IN  IF require_admin # {}
           THEN /\ \E refused \in require_admin : Return(p, refused)
                /\ UNCHANGED <<requests, next_request_id>>
           ELSE IF missing # ""
           THEN /\ Return(p, Answer(400, "Missing required field: " \o missing))
                /\ UNCHANGED <<requests, next_request_id>>
           ELSE IF error # ""
           THEN /\ Return(p, Answer(400, error))
                /\ UNCHANGED <<requests, next_request_id>>
           ELSE /\ requests' = requests @@ (next_request_id :> row)
                /\ next_request_id' = next_request_id + 1
                /\ Return(p, [Answer(201, "") EXCEPT !.id = next_request_id])
    /\ UNCHANGED <<responses, next_response_id, session, local, last_accept>>

(***************************************************************************)
(* GET /api/requests, GET /api/requests/<request_id>: they read and answer *)
(***************************************************************************)
api_get_requests(p, query) ==
    /\ Begin(p, [op |-> "get_requests", id |-> 0, data |-> query])
    /\ LET error == validate_pagination_params(query.page, query.per_page).raised
       IN  IF require_admin # {}
           THEN \E refused \in require_admin : Return(p, refused)
           ELSE IF error # ""
           THEN Return(p, Answer(400, error))
           ELSE Return(p, Answer(200, ""))
    /\ UNCHANGED <<db, session, local, last_accept>>

api_get_request(p, request_id) ==
    /\ Begin(p, [op |-> "get_request", id |-> request_id, data |-> EmptyBody])
    /\ IF require_admin # {}
       THEN \E refused \in require_admin : Return(p, refused)
       ELSE IF request_id \notin DOMAIN requests
       THEN Return(p, Answer(404, "Request not found"))
       ELSE Return(p, [Answer(200, "") EXCEPT !.id = request_id])
    /\ UNCHANGED <<db, session, local, last_accept>>

(***************************************************************************)
(* DELETE /api/requests/<request_id>: one DELETE ... RETURNING id in a     *)
(* transaction of its own.  It waits for the locks other transactions hold *)
(* on the rows it removes.                                                 *)
(***************************************************************************)
\* the responses table after the responses of request_id went with their parent
\* (the foreign key of responses.request_id deletes them with the request)
CascadeDelete(request_id) ==
    [r \in {o \in DOMAIN responses : responses[o].request_id # request_id} |-> responses[r]]

\* the table without the row id
WithoutRow(table, id) == [r \in DOMAIN table \ {id} |-> table[r]]

api_delete_request(p, request_id) ==
    /\ Begin(p, [op |-> "delete_request", id |-> request_id, data |-> EmptyBody])
    /\ RequestLockFree(p, request_id)
    /\ \A r \in DOMAIN responses :
          responses[r].request_id = request_id => ResponseLockFree(p, r)
    /\ IF require_admin # {}
       THEN /\ \E refused \in require_admin : Return(p, refused)
            /\ UNCHANGED <<requests, responses>>
       ELSE IF request_id \notin DOMAIN requests
       THEN /\ Return(p, Answer(404, "Request not found"))
            /\ UNCHANGED <<requests, responses>>
       ELSE /\ requests' = WithoutRow(requests, request_id)
            /\ responses' = CascadeDelete(request_id)
            /\ Return(p, Answer(200, ""))
    /\ UNCHANGED <<next_request_id, next_response_id, session, local, last_accept>>

(***************************************************************************)
(* PUT /api/requests/<request_id>: the existence check and the UPDATE are  *)
(* two statements, each in a transaction of its own.                       *)
(***************************************************************************)
allowed_fields == <<"item_name", "quantity_needed", "unit", "description", "status">>

update_fields(data) == {allowed_fields[i] : i \in 1..Len(allowed_fields)} \cap DOMAIN data

api_update_request(p, request_id, data) ==
    /\ Begin(p, [op |-> "update_request", id |-> request_id, data |-> data])
    /\ IF require_admin # {}
       THEN \E refused \in require_admin : Return(p, refused)
       ELSE IF request_id \notin DOMAIN requests
       THEN Return(p, Answer(404, "Request not found"))
       ELSE IF update_fields(data) = {}
       THEN Return(p, Answer(400, "No valid fields to update"))
       ELSE Goto(p, "update_request_execute")
    /\ UNCHANGED <<db, session, local, last_accept>>

\* the UPDATE that writes the whole row: a column that is not supplied is reset
api_update_request_execute_Replace(p) ==
    /\ Continue(p, "update_request_execute")
    /\ RequestLockFree(p, call[p].id)
    /\ LET data == call[p].data
           request_id == call[p].id
           blank == [item_name |-> "", quantity_needed |-> 0, unit |-> "",
                     description |-> "", status |-> DEFAULT_STATUS]
       IN  IF Has(data, "quantity_needed") /\ ~IsInt(data["quantity_needed"])
           THEN /\ Return(p, Answer(500, "invalid input syntax for type integer"))
                /\ UNCHANGED requests
           ELSE IF request_id \notin DOMAIN requests
           THEN /\ Return(p, Answer(200, ""))
                /\ UNCHANGED requests
           ELSE /\ requests' = [requests EXCEPT ![request_id] =
                        [f \in DOMAIN @ |->
                            IF f \in update_fields(data) THEN data[f].v ELSE blank[f]]]
                /\ Return(p, [Answer(200, "") EXCEPT !.id = request_id])
    /\ UNCHANGED <<responses, next_request_id, next_response_id, local>>

\* UPDATE requests SET <supplied fields> WHERE id = %s RETURNING ...
api_update_request_execute(p) ==
    /\ Continue(p, "update_request_execute")
    /\ RequestLockFree(p, call[p].id)
    /\ LET data == call[p].data
           request_id == call[p].id
       IN  IF Has(data, "quantity_needed") /\ ~IsInt(data["quantity_needed"])
           THEN \* the integer column rejects the value: psycopg2.Error, rollback
                /\ Return(p, Answer(500, "invalid input syntax for type integer"))
                /\ UNCHANGED requests
           ELSE IF request_id \notin DOMAIN requests
           THEN /\ Return(p, Answer(200, ""))
                /\ UNCHANGED requests
           ELSE /\ requests' = [requests EXCEPT ![request_id] =
                        [f \in DOMAIN @ |->
                            IF f \in update_fields(data) THEN data[f].v ELSE @[f]]]
                /\ Return(p, [Answer(200, "") EXCEPT !.id = request_id])
    /\ UNCHANGED <<responses, next_request_id, next_response_id, local>>

(***************************************************************************)
(* POST /api/responses/<response_id>/accept                                *)
(***************************************************************************)
\* the join of the response response_id with its parent request
JoinedRow(response_id) ==
    [id                 |-> response_id,
     request_id         |-> responses[response_id].request_id,
     quantity_available |-> responses[response_id].quantity_available,
     accepted           |-> responses[response_id].accepted,
     quantity_needed    |-> requests[responses[response_id].request_id].quantity_needed]

\* the SELECT without its WHERE clause: fetchone() yields the first joined row
SelectResponse_NoWhere(response_id) ==
    IF DOMAIN responses # {}
    THEN JoinedRow(CHOOSE r \in DOMAIN responses : \A o \in DOMAIN responses : r <= o)
    ELSE NoRow

\* SELECT r.id, r.request_id, r.quantity_available, r.accepted, req.quantity_needed
\*   FROM responses r JOIN requests req ON r.request_id = req.id WHERE r.id = %s
SelectResponse(response_id) ==
    IF /\ response_id \in DOMAIN responses
       /\ responses[response_id].request_id \in DOMAIN requests
    THEN JoinedRow(response_id)
    ELSE NoRow

\* the subtraction without the floor at zero
AcceptQuantity_NoFloor(response) == response.quantity_needed - response.quantity_available

\* the subtraction that takes the offered quantity off twice
AcceptQuantity_Twice(response) ==
    Max(0, response.quantity_needed - 2 * response.quantity_available)

AcceptQuantity(response) == Max(0, response.quantity_needed - response.quantity_available)

\* the handler without its check of the accepted flag
api_accept_response_NoConflict(p, response_id) ==
    /\ Begin(p, [op |-> "accept", id |-> response_id, data |-> EmptyBody])
    /\ LET response == SelectResponse(response_id)
       IN  IF require_admin # {}
           THEN (\E refused \in require_admin : Return(p, refused)) /\ UNCHANGED local
           ELSE IF response = NoRow
           THEN Return(p, Answer(404, "Response not found")) /\ UNCHANGED local
           ELSE /\ local' = [local EXCEPT ![p] =
                        [response |-> response, new_quantity |-> AcceptQuantity(response)]]
                /\ Goto(p, "accept_update_response")
    /\ UNCHANGED <<db, session, last_accept>>

api_accept_response(p, response_id) ==
    /\ Begin(p, [op |-> "accept", id |-> response_id, data |-> EmptyBody])
    /\ LET response == SelectResponse(response_id)
       IN  IF require_admin # {}
           THEN (\E refused \in require_admin : Return(p, refused)) /\ UNCHANGED local
           ELSE IF response = NoRow
           THEN Return(p, Answer(404, "Response not found")) /\ UNCHANGED local
           ELSE IF response.accepted
           THEN Return(p, Answer(400, "Response already accepted")) /\ UNCHANGED local
           ELSE /\ local' = [local EXCEPT ![p] =
                        [response |-> response, new_quantity |-> AcceptQuantity(response)]]
                /\ Goto(p, "accept_update_response")
    /\ UNCHANGED <<db, session, last_accept>>

\* UPDATE responses SET accepted = TRUE WHERE id = %s.  The statement takes the
\* row lock and its write stays in the open transaction; or cur.execute raises,
\* get_db_cursor rolls back and the handler answers 500.
accept_update_response(p) ==
    /\ Continue(p, "accept_update_response")
    /\ \/ /\ ResponseLockFree(p, local[p].response.id)
          /\ Goto(p, "accept_update_request")
       \/ Return(p, Answer(500, "UPDATE responses failed"))
    /\ UNCHANGED <<db, local>>

\* the handler that keeps the flag it has written when the second UPDATE fails
accept_update_request_NoRollback(p) ==
    /\ Continue(p, "accept_update_request")
    /\ \/ /\ RequestLockFree(p, local[p].response.request_id)
          /\ Goto(p, "accept_commit")
          /\ UNCHANGED responses
       \/ /\ Return(p, Answer(500, "UPDATE requests failed"))
          /\ responses' = [responses EXCEPT ![local[p].response.id].accepted = TRUE]
    /\ UNCHANGED <<requests, next_request_id, next_response_id, local>>

\* UPDATE requests SET quantity_needed = %s WHERE id = %s.  When cur.execute
\* raises, the UPDATE of the response is rolled back with the transaction.
accept_update_request(p) ==
    /\ Continue(p, "accept_update_request")
    /\ \/ /\ RequestLockFree(p, local[p].response.request_id)
          /\ Goto(p, "accept_commit")
       \/ Return(p, Answer(500, "UPDATE requests failed"))
    /\ UNCHANGED <<db, local>>

\* the commit that also closes the request once nothing more is needed
accept_commit_ClosesRequest(p) ==
    /\ Continue(p, "accept_commit")
    /\ LET response == local[p].response
       IN  /\ responses' = [responses EXCEPT ![response.id].accepted = TRUE]
           /\ requests' = [requests EXCEPT
                              ![response.request_id].quantity_needed = local[p].new_quantity,
                              ![response.request_id].status =
                                  IF local[p].new_quantity = 0 THEN "closed" ELSE @]
    /\ Return(p, [Answer(200, "") EXCEPT !.new_quantity_needed = local[p].new_quantity])
    /\ UNCHANGED <<next_request_id, next_response_id, local>>

\* the with block exits: conn.commit() publishes both writes, then the answer is built
accept_commit(p) ==
    /\ Continue(p, "accept_commit")
    /\ LET response == local[p].response
       IN  /\ responses' = [responses EXCEPT ![response.id].accepted = TRUE]
           /\ requests' = [requests EXCEPT
                              ![response.request_id].quantity_needed = local[p].new_quantity]
    /\ Return(p, [Answer(200, "") EXCEPT !.new_quantity_needed = local[p].new_quantity])
    /\ UNCHANGED <<next_request_id, next_response_id, local>>

(***************************************************************************)
(* POST /api/responses/<response_id>/unaccept                              *)
(***************************************************************************)
\* the quantity left as it was read
UnacceptQuantity_Keep(response) == response.quantity_needed

\* the subtraction of Accept copied into Unaccept
UnacceptQuantity_Subtract(response) ==
    Max(0, response.quantity_needed - response.quantity_available)

UnacceptQuantity(response) == response.quantity_needed + response.quantity_available

\* the handler without its check of the accepted flag
api_unaccept_response_NoConflict(p, response_id) ==
    /\ Begin(p, [op |-> "unaccept", id |-> response_id, data |-> EmptyBody])
    /\ LET response == SelectResponse(response_id)
       IN  IF require_admin # {}
           THEN (\E refused \in require_admin : Return(p, refused)) /\ UNCHANGED local
           ELSE IF response = NoRow
           THEN Return(p, Answer(404, "Response not found")) /\ UNCHANGED local
           ELSE /\ local' = [local EXCEPT ![p] =
                        [response |-> response, new_quantity |-> UnacceptQuantity(response)]]
                /\ Goto(p, "unaccept_update_response")
    /\ UNCHANGED <<db, session, last_accept>>

api_unaccept_response(p, response_id) ==
    /\ Begin(p, [op |-> "unaccept", id |-> response_id, data |-> EmptyBody])
    /\ LET response == SelectResponse(response_id)
       IN  IF require_admin # {}
           THEN (\E refused \in require_admin : Return(p, refused)) /\ UNCHANGED local
           ELSE IF response = NoRow
           THEN Return(p, Answer(404, "Response not found")) /\ UNCHANGED local
           ELSE IF ~response.accepted
           THEN Return(p, Answer(400, "Response is not accepted")) /\ UNCHANGED local
           ELSE /\ local' = [local EXCEPT ![p] =
                        [response |-> response, new_quantity |-> UnacceptQuantity(response)]]
                /\ Goto(p, "unaccept_update_response")
    /\ UNCHANGED <<db, session, last_accept>>

\* UPDATE responses SET accepted = FALSE WHERE id = %s, or cur.execute raises
unaccept_update_response(p) ==
    /\ Continue(p, "unaccept_update_response")
    /\ \/ /\ ResponseLockFree(p, local[p].response.id)
          /\ Goto(p, "unaccept_update_request")
       \/ Return(p, Answer(500, "UPDATE responses failed"))
    /\ UNCHANGED <<db, local>>

\* UPDATE requests SET quantity_needed = %s WHERE id = %s, or cur.execute raises
unaccept_update_request(p) ==
    /\ Continue(p, "unaccept_update_request")
    /\ \/ /\ RequestLockFree(p, local[p].response.request_id)
          /\ Goto(p, "unaccept_commit")
       \/ Return(p, Answer(500, "UPDATE requests failed"))
    /\ UNCHANGED <<db, local>>

unaccept_commit(p) ==
    /\ Continue(p, "unaccept_commit")
    /\ LET response == local[p].response
       IN  /\ responses' = [responses EXCEPT ![response.id].accepted = FALSE]
           /\ requests' = [requests EXCEPT
                              ![response.request_id].quantity_needed = local[p].new_quantity]
    /\ Return(p, [Answer(200, "") EXCEPT !.new_quantity_needed = local[p].new_quantity])
    /\ UNCHANGED <<next_request_id, next_response_id, local>>

(***************************************************************************)
(* POST /api/public/requests/<request_id>/responses: the open check and    *)
(* the INSERT are two statements, each in a transaction of its own.        *)
(***************************************************************************)
\* the check query without AND status = 'open'
api_create_response_AnyStatus(p, request_id, data) ==
    /\ next_response_id <= MaxResponses
    /\ Begin(p, [op |-> "create_response", id |-> request_id, data |-> data])
    /\ IF ~(request_id \in DOMAIN requests)
       THEN Return(p, Answer(404, "Request not found or closed"))
       ELSE Goto(p, "create_response_insert")
    /\ UNCHANGED <<db, session, local, last_accept>>

api_create_response(p, request_id, data) ==
    /\ next_response_id <= MaxResponses
    /\ Begin(p, [op |-> "create_response", id |-> request_id, data |-> data])
    /\ IF ~(request_id \in DOMAIN requests /\ requests[request_id].status = "open")
       THEN Return(p, Answer(404, "Request not found or closed"))
       ELSE Goto(p, "create_response_insert")
    /\ UNCHANGED <<db, session, local, last_accept>>

\* the INSERT that also takes the offered quantity off the parent's quantity_needed
api_create_response_insert_Reserve(p) ==
    /\ Continue(p, "create_response_insert")
    /\ LET data    == call[p].data
           missing == MissingField(data, <<"quantity_available", "location">>)
           error   == validate_response_error(data)
           clean   == validate_response_data(data)
           row     == [request_id         |-> call[p].id,
                       responder_name     |-> GetStripped(clean, "responder_name", JNull),
                       responder_contact  |-> GetStripped(clean, "responder_contact", JNull),
                       quantity_available |-> clean["quantity_available"].v,
                       location           |-> Strip(clean["location"].v),
                       notes              |-> GetStripped(clean, "notes", JNull),
                       accepted           |-> DEFAULT_ACCEPTED]
       IN  IF missing # ""
           THEN /\ Return(p, Answer(400, "Missing required field: " \o missing))
                /\ UNCHANGED <<requests, responses, next_response_id>>
           ELSE IF error # ""
           THEN /\ Return(p, Answer(400, error))
                /\ UNCHANGED <<requests, responses, next_response_id>>
           ELSE /\ responses' = responses @@ (next_response_id :> row)
                /\ next_response_id' = next_response_id + 1
                /\ requests' = [requests EXCEPT ![call[p].id].quantity_needed =
                                   Max(0, @ - row.quantity_available)]
                /\ Return(p, [Answer(201, "") EXCEPT !.id = next_response_id])
    /\ UNCHANGED <<next_request_id, local>>

api_create_response_insert(p) ==
    /\ Continue(p, "create_response_insert")
    /\ LET data    == call[p].data
           missing == MissingField(data, <<"quantity_available", "location">>)
           error   == validate_response_error(data)
           clean   == validate_response_data(data)
           row     == [request_id         |-> call[p].id,
                       responder_name     |-> GetStripped(clean, "responder_name", JNull),
                       responder_contact  |-> GetStripped(clean, "responder_contact", JNull),
                       quantity_available |-> clean["quantity_available"].v,
                       location           |-> Strip(clean["location"].v),
                       notes              |-> GetStripped(clean, "notes", JNull),
                       accepted           |-> DEFAULT_ACCEPTED]
       IN  IF missing # ""
           THEN /\ Return(p, Answer(400, "Missing required field: " \o missing))
                /\ UNCHANGED <<responses, next_response_id>>
           ELSE IF error # ""
           THEN /\ Return(p, Answer(400, error))
                /\ UNCHANGED <<responses, next_response_id>>
           ELSE /\ responses' = responses @@ (next_response_id :> row)
                /\ next_response_id' = next_response_id + 1
                /\ Return(p, [Answer(201, "") EXCEPT !.id = next_response_id])
    /\ UNCHANGED <<requests, next_request_id, local>>

(***************************************************************************)
(* src/db.py: the pooled connections and the three helpers that run        *)
(* statements on them.  A statement is a SELECT, a write without RETURNING *)
(* or a write with RETURNING.  A connection's transaction starts with its  *)
(* first statement; pending[c] counts the writes it has not yet committed. *)
(* Each step that talks to the server can fail with a psycopg2.Error;      *)
(* cur.execute can also fail before it reaches the server, with an         *)
(* exception of another class (a parameter that does not fit the query).   *)
(***************************************************************************)
Statements == {"select", "write", "write_returning"}

IsWrite(stmt) == stmt \in {"write", "write_returning"}

ReturnsRows(stmt) == stmt \in {"select", "write_returning"}

\* a caller enters the helper c
DbBegin(p, c) ==
    /\ p <= workers
    /\ db_pc[p] = "idle"
    /\ calls_left > 0
    /\ calls_left' = calls_left - 1
    /\ db_call' = [db_call EXCEPT ![p] = c]
    /\ UNCHANGED <<workers, appvars, poolvars>>

\* a later line of the helper the caller is in
DbContinue(p, label) ==
    /\ db_pc[p] = label
    /\ UNCHANGED <<workers, calls_left, db_call, appvars, poolvars>>

DbGoto(p, label) == db_pc' = [db_pc EXCEPT ![p] = label]

\* conn = get_db_connection(): getconn() hands out a connection of the pool, or
\* raises PoolError (a psycopg2.Error) when all of them are checked out
get_db_connection(p) ==
    IF checked_out = Connections
    THEN /\ scope' = [scope EXCEPT ![p].failure = "psycopg2.Error"]
         /\ DbGoto(p, "done")
         /\ UNCHANGED <<checked_out, db_conn>>
    ELSE LET conn == CHOOSE c \in Connections \ checked_out :
                         \A o \in Connections \ checked_out : c <= o
         IN  /\ checked_out' = checked_out \cup {conn}
             /\ db_conn' = [db_conn EXCEPT ![p] = conn]
             /\ DbGoto(p, "cursor")
             /\ UNCHANGED scope

\* with get_db_cursor() as cur:
get_db_cursor(p) ==
    /\ DbBegin(p, [fn |-> "get_db_cursor", stmt |-> "none", fetch |-> FALSE])
    /\ get_db_connection(p)
    /\ UNCHANGED <<pending, durable>>

\* execute_query(query, params, fetch)
execute_query(p, stmt, fetch) ==
    /\ DbBegin(p, [fn |-> "execute_query", stmt |-> stmt, fetch |-> fetch])
    /\ get_db_connection(p)
    /\ UNCHANGED <<pending, durable>>

\* execute_query_one(query, params)
execute_query_one(p, stmt) ==
    /\ DbBegin(p, [fn |-> "execute_query_one", stmt |-> stmt, fetch |-> TRUE])
    /\ get_db_connection(p)
    /\ UNCHANGED <<pending, durable>>

\* cur = conn.cursor(), the line before the try block of each helper: it raises
\* when the pooled connection has been closed in the meantime, and the helper is
\* left with the exception, the connection still checked out
conn_cursor(p) ==
    /\ DbContinue(p, "cursor")
    /\ \/ /\ DbGoto(p, IF db_call[p].fn = "get_db_cursor" THEN "body" ELSE "execute")
          /\ UNCHANGED <<scope, db_conn>>
       \/ /\ scope' = [scope EXCEPT ![p].failure = "psycopg2.Error"]
          /\ db_conn' = [db_conn EXCEPT ![p] = 0]
          /\ DbGoto(p, "done")
    /\ UNCHANGED <<checked_out, pending, durable>>

\* the body of the with block executes one more statement through cur
body_execute(p, stmt) ==
    /\ DbContinue(p, "body")
    /\ scope[p].statements < MaxStatements
    /\ scope' = [scope EXCEPT ![p].statements = @ + 1,
                              ![p].writes = @ + (IF IsWrite(stmt) THEN 1 ELSE 0)]
    /\ pending' = [pending EXCEPT ![db_conn[p]] = @ + (IF IsWrite(stmt) THEN 1 ELSE 0)]
    /\ UNCHANGED <<checked_out, durable, db_pc, db_conn>>

\* the ways the body of the with block ends
BodyExits == {"normal", "return", "psycopg2.Error", "Exception"}

\* the body that reaches conn.commit() however it ends
body_exit_CommitAlways(p, how) ==
    /\ DbContinue(p, "body")
    /\ scope' = [scope EXCEPT ![p].body = how,
                              ![p].failure = IF how \in {"normal", "return"} THEN "" ELSE how]
    /\ DbGoto(p, "commit")
    /\ UNCHANGED <<checked_out, pending, durable, db_conn>>

\* the body of the with block ends: by falling off its end or by a return, and
\* the generator goes on to conn.commit(); or by an exception, which is thrown
\* into the generator at the yield and caught by except Exception
body_exit(p, how) ==
    /\ DbContinue(p, "body")
    /\ scope' = [scope EXCEPT ![p].body = how,
                              ![p].failure = IF how \in {"normal", "return"} THEN "" ELSE how]
    /\ DbGoto(p, IF how \in {"normal", "return"} THEN "commit" ELSE "rollback")
    /\ UNCHANGED <<checked_out, pending, durable, db_conn>>

\* cur.execute(query, params or ()) of execute_query and execute_query_one
db_execute(p) ==
    /\ DbContinue(p, "execute")
    /\ LET stmt == db_call[p].stmt
           conn == db_conn[p]
       IN  \/ /\ scope' = [scope EXCEPT ![p].statements = @ + 1,
                                        ![p].writes = @ + (IF IsWrite(stmt) THEN 1 ELSE 0)]
              /\ pending' = [pending EXCEPT ![conn] = @ + (IF IsWrite(stmt) THEN 1 ELSE 0)]
              /\ DbGoto(p, IF db_call[p].fetch THEN "fetch" ELSE "commit")
           \/ /\ scope' = [scope EXCEPT ![p].failure = "psycopg2.Error"]
              /\ DbGoto(p, "rollback")
              /\ UNCHANGED pending
           \/ /\ scope' = [scope EXCEPT ![p].failure = "Exception"]
              /\ DbGoto(p, "finally")
              /\ UNCHANGED pending
    /\ UNCHANGED <<checked_out, durable, db_conn>>

\* result = cur.fetchall() of execute_query(fetch=True), after which the helper
\* returns; result = cur.fetchone() of execute_query_one, after which it commits.
\* A statement that returns no rows has nothing to fetch: ProgrammingError.
db_fetch(p) ==
    /\ DbContinue(p, "fetch")
    /\ IF ReturnsRows(db_call[p].stmt)
       THEN /\ DbGoto(p, IF db_call[p].fn = "execute_query" THEN "finally" ELSE "commit")
            /\ UNCHANGED scope
       ELSE /\ scope' = [scope EXCEPT ![p].failure = "psycopg2.Error"]
            /\ DbGoto(p, "rollback")
    /\ UNCHANGED <<checked_out, pending, durable, db_conn>>

\* conn.commit(): the writes of the transaction become durable, or the commit
\* fails with a psycopg2.Error, which the except clause of the helper catches
conn_commit(p) ==
    /\ DbContinue(p, "commit")
    /\ LET conn == db_conn[p]
       IN  \/ /\ durable' = durable + pending[conn]
              /\ scope' = [scope EXCEPT ![p].durable = @ + pending[conn],
                                        ![p].commits = @ + 1]
              /\ pending' = [pending EXCEPT ![conn] = 0]
              /\ DbGoto(p, "finally")
           \/ /\ scope' = [scope EXCEPT ![p].commit_failed = TRUE,
                                        ![p].failure = "psycopg2.Error"]
              /\ DbGoto(p, "rollback")
              /\ UNCHANGED <<durable, pending>>
    /\ UNCHANGED <<checked_out, db_conn>>

\* conn.rollback() in the except clause; the exception is raised again
conn_rollback(p) ==
    /\ DbContinue(p, "rollback")
    /\ pending' = [pending EXCEPT ![db_conn[p]] = 0]
    /\ scope' = [scope EXCEPT ![p].rollbacks = @ + 1]
    /\ DbGoto(p, "finally")
    /\ UNCHANGED <<checked_out, durable, db_conn>>

\* finally: cur.close(); return_connection(conn).  putconn() rolls back the
\* transaction a connection still has open before the pool takes it back.
return_connection(p) ==
    /\ DbContinue(p, "finally")
    /\ LET conn == db_conn[p]
       IN  /\ pending' = [pending EXCEPT ![conn] = 0]
           /\ scope' = [scope EXCEPT ![p].rollbacks = @ + (IF pending[conn] > 0 THEN 1 ELSE 0)]
           /\ checked_out' = checked_out \ {conn}
           /\ db_conn' = [db_conn EXCEPT ![p] = 0]
    /\ DbGoto(p, "done")
    /\ UNCHANGED durable

\* the helper has returned or raised; the caller goes on
db_return(p) ==
    /\ db_pc[p] = "done"
    /\ db_call' = [db_call EXCEPT ![p] = NoDbCall]
    /\ scope' = [scope EXCEPT ![p] = NoScope]
    /\ DbGoto(p, "idle")
    /\ UNCHANGED <<checked_out, pending, durable, db_conn, workers, calls_left, appvars, poolvars>>

(***************************************************************************)
(* Specifications.  Under Spec the workers interleave statement by         *)
(* statement; under SpecSeq one worker serves one call after the other,    *)
(* starting from the empty database; under SpecReconcile one worker serves *)
(* an admin on a database with large quantities.  SpecAdmin adds the       *)
(* admin's reads and DELETE; SpecDb, SpecScope and SpecPool follow the     *)
(* pooled connections, SpecValidation the validators on their own.         *)
(***************************************************************************)
Step(p) ==
    \/ \E data \in LoginBodies : api_login(p, data)
    \/ api_logout(p)
    \/ \E data \in CreateRequestBodies : api_create_request(p, data)
    \/ \E request_id \in RequestIds, data \in UpdateRequestBodies :
          api_update_request(p, request_id, data)
    \/ api_update_request_execute(p)
    \/ \E response_id \in ResponseIds : api_accept_response(p, response_id)
    \/ accept_update_response(p)
    \/ accept_update_request(p)
    \/ accept_commit(p)
    \/ \E response_id \in ResponseIds : api_unaccept_response(p, response_id)
    \/ unaccept_update_response(p)
    \/ unaccept_update_request(p)
    \/ unaccept_commit(p)
    \/ \E request_id \in RequestIds, data \in CreateResponseBodies :
          api_create_response(p, request_id, data)
    \/ api_create_response_insert(p)
    \/ Finish(p)

Next == \E p \in Procs : Step(p)

Spec == Init /\ [][Next]_vars

SpecSeq == InitSeq /\ [][Next]_vars

SpecReconcile == InitReconcile /\ [][Next]_vars

\* every route of the API, the ones above and the admin's reads and delete,
\* served by one worker on the seeded database, with or without a login
InitAdmin ==
    /\ requests = (1 :> SeedRequest)
    /\ responses \in {(1 :> [SeedResponse(2) EXCEPT !.accepted = accepted]) :
                         accepted \in BOOLEAN}
    /\ next_request_id = 2
    /\ next_response_id = 2
    /\ session \in {[is_admin |-> FALSE, username |-> ""],
                    [is_admin |-> TRUE, username |-> ADMIN_USERNAME]}
    /\ workers = 1
    /\ calls_left = MaxAdminCalls
    /\ InitWorkers

AdminStep(p) ==
    \/ \E query \in PageQueries : api_get_requests(p, query)
    \/ \E request_id \in RequestIds : api_get_request(p, request_id)
    \/ \E request_id \in RequestIds : api_delete_request(p, request_id)

NextAdmin == \E p \in Procs : Step(p) \/ AdminStep(p)

SpecAdmin == InitAdmin /\ [][NextAdmin]_vars

\* the helpers of src/db.py called one after the other on a full pool
InitDb ==
    /\ requests = EmptyBody
    /\ responses = EmptyBody
    /\ next_request_id = 1
    /\ next_response_id = 1
    /\ session = [is_admin |-> FALSE, username |-> ""]
    /\ workers = 1
    /\ calls_left = MaxDbCalls
    /\ InitWorkers

DbStep(p) ==
    \/ get_db_cursor(p)
    \/ \E stmt \in Statements, fetch \in BOOLEAN : execute_query(p, stmt, fetch)
    \/ \E stmt \in Statements : execute_query_one(p, stmt)
    \/ conn_cursor(p)
    \/ \E stmt \in Statements : body_execute(p, stmt)
    \/ \E how \in BodyExits : body_exit(p, how)
    \/ db_execute(p)
    \/ db_fetch(p)
    \/ conn_commit(p)
    \/ conn_rollback(p)
    \/ return_connection(p)
    \/ db_return(p)

NextDb == \E p \in Procs : DbStep(p)

SpecDb == InitDb /\ [][NextDb]_vars

(***************************************************************************)
(* Accept and Unaccept together with the pooled connection their with      *)
(* block runs on: get_db_cursor() takes a connection and opens the cursor  *)
(* before the first statement, and returns the connection when the block   *)
(* is left, whichever way.  db_pc[p] is "body" while worker p is inside    *)
(* the try block of get_db_cursor, db_conn[p] the connection it holds.     *)
(***************************************************************************)
\* what the steps below leave alone
ScopeFrame ==
    UNCHANGED <<db, session, workers, calls_left, call, last_accept, baseline,
                pending, durable, db_call, scope, poolvars>>

\* the handler is entered: require_admin, then with get_db_cursor() as cur
with_get_db_cursor(p, op, response_id) ==
    /\ Begin(p, [op |-> op, id |-> response_id, data |-> EmptyBody])
    /\ IF require_admin # {}
       THEN \E refused \in require_admin : Return(p, refused)
       ELSE Goto(p, "getconn")
    /\ UNCHANGED <<db, session, local, last_accept>>

\* conn = get_db_connection(): getconn() hands out a free connection or raises
\* PoolError at once when there is none; the handler then answers 500
scope_getconn(p) ==
    /\ pc[p] = "getconn"
    /\ IF checked_out = Connections
       THEN /\ Return(p, Answer(500, "connection pool exhausted"))
            /\ UNCHANGED <<checked_out, db_conn, db_pc>>
       ELSE LET conn == CHOOSE c \in Connections \ checked_out :
                            \A o \in Connections \ checked_out : c <= o
            IN  /\ checked_out' = checked_out \cup {conn}
                /\ db_conn' = [db_conn EXCEPT ![p] = conn]
                /\ db_pc' = [db_pc EXCEPT ![p] = "cursor"]
                /\ Goto(p, "cursor")
    /\ UNCHANGED local
    /\ ScopeFrame

\* cur = conn.cursor(), before the try block: the with body is entered, or the
\* call raises, nothing returns the connection and the handler answers 500
scope_cursor(p) ==
    /\ pc[p] = "cursor"
    /\ \/ /\ db_pc' = [db_pc EXCEPT ![p] = "body"]
          /\ Goto(p, "select")
          /\ UNCHANGED db_conn
       \/ /\ db_pc' = [db_pc EXCEPT ![p] = "idle"]
          /\ db_conn' = [db_conn EXCEPT ![p] = 0]
          /\ Return(p, Answer(500, "connection already closed"))
    /\ UNCHANGED <<checked_out, local>>
    /\ ScopeFrame

\* cur.execute(query, (response_id,)); response = cur.fetchone() and the two
\* checks of the handler
scope_select(p) ==
    /\ pc[p] = "select"
    /\ LET response == SelectResponse(call[p].id)
           accept   == call[p].op = "accept"
       IN  IF response = NoRow
           THEN Return(p, Answer(404, "Response not found")) /\ UNCHANGED local
           ELSE IF accept /\ response.accepted
           THEN Return(p, Answer(400, "Response already accepted")) /\ UNCHANGED local
           ELSE IF ~accept /\ ~response.accepted
           THEN Return(p, Answer(400, "Response is not accepted")) /\ UNCHANGED local
           ELSE /\ local' = [local EXCEPT ![p] =
                        [response |-> response,
                         new_quantity |-> IF accept THEN AcceptQuantity(response)
                                                    ELSE UnacceptQuantity(response)]]
                /\ Goto(p, IF accept THEN "accept_update_response"
                                     ELSE "unaccept_update_response")
    /\ UNCHANGED <<checked_out, db_conn, db_pc>>
    /\ ScopeFrame

\* the with block is left, by its end, a return or an exception: finally:
\* cur.close(); return_connection(conn)
scope_exit(p) ==
    /\ pc[p] = "done"
    /\ db_pc[p] = "body"
    /\ checked_out' = checked_out \ {db_conn[p]}
    /\ db_conn' = [db_conn EXCEPT ![p] = 0]
    /\ db_pc' = [db_pc EXCEPT ![p] = "idle"]
    /\ UNCHANGED <<pc, local, result>>
    /\ ScopeFrame

\* the answer is sent once the with block has been left
scope_finish(p) ==
    /\ db_pc[p] = "idle"
    /\ Finish(p)

InitScope ==
    /\ requests = (1 :> SeedRequest)
    /\ responses = (1 :> SeedResponse(2)) @@ (2 :> SeedResponse(5))
    /\ next_request_id = 2
    /\ next_response_id = 3
    /\ session = [is_admin |-> TRUE, username |-> ADMIN_USERNAME]
    /\ workers = NumProcs
    /\ calls_left = MaxScopeCalls
    /\ InitWorkers

ScopeStep(p) ==
    \/ \E op \in {"accept", "unaccept"}, response_id \in ResponseIds :
          with_get_db_cursor(p, op, response_id)
    \/ scope_getconn(p)
    \/ scope_cursor(p)
    \/ scope_select(p)
    \/ accept_update_response(p)
    \/ accept_update_request(p)
    \/ accept_commit(p)
    \/ unaccept_update_response(p)
    \/ unaccept_update_request(p)
    \/ unaccept_commit(p)
    \/ scope_exit(p)
    \/ scope_finish(p)

NextScope == \E p \in Procs : ScopeStep(p)

\* every worker that can take a step eventually takes one
ScopeFairness == \A p \in Procs : WF_vars(ScopeStep(p))

SpecScope == InitScope /\ [][NextScope]_vars /\ ScopeFairness

(***************************************************************************)
(* The initialization of the pool: src/db.py on its own, _connection_pool  *)
(* still None, and threads that call init_connection_pool, directly or     *)
(* through get_db_connection.  The test of the global and the assignment   *)
(* to it are separate steps of a thread; no lock is taken between them.    *)
(***************************************************************************)
PoolSettings ==
    {[id |-> 0, minconn |-> DEFAULT_MINCONN, maxconn |-> DEFAULT_MAXCONN],
     [id |-> 0, minconn |-> APP_MINCONN, maxconn |-> DEFAULT_MAXCONN]}

\* the frame of the steps of init_connection_pool
PoolFrame == UNCHANGED <<workers, appvars, checked_out, pending, durable,
                         db_pc, db_call, db_conn, scope>>

\* if _connection_pool is None: go on to build the pool, else return at once
pool_is_none(p, args) ==
    /\ p <= workers
    /\ init_pc[p] = "idle"
    /\ calls_left > 0
    /\ calls_left' = calls_left - 1
    /\ IF connection_pool = NoPool
       THEN /\ init_pc' = [init_pc EXCEPT ![p] = "create"]
            /\ init_args' = [init_args EXCEPT ![p] = args]
       ELSE UNCHANGED <<init_pc, init_args>>
    /\ UNCHANGED <<connection_pool, pools_created>>
    /\ PoolFrame

\* init_connection_pool(minconn, maxconn)
init_connection_pool(p, args) == pool_is_none(p, args)

\* get_db_connection(): if _connection_pool is None: init_connection_pool()
get_db_connection_init(p) ==
    pool_is_none(p, [id |-> 0, minconn |-> DEFAULT_MINCONN, maxconn |-> DEFAULT_MAXCONN])

\* _connection_pool = psycopg2.pool.SimpleConnectionPool(minconn, maxconn, ...):
\* the pool is built and assigned to the global, or the constructor raises a
\* psycopg2.Error and the global is left as it is
pool_create(p) ==
    /\ init_pc[p] = "create"
    /\ \/ /\ pools_created' = pools_created + 1
          /\ connection_pool' = [init_args[p] EXCEPT !.id = pools_created + 1]
       \/ UNCHANGED <<connection_pool, pools_created>>
    /\ init_pc' = [init_pc EXCEPT ![p] = "idle"]
    /\ init_args' = [init_args EXCEPT ![p] = NoPool]
    /\ UNCHANGED calls_left
    /\ PoolFrame

InitPool ==
    /\ requests = EmptyBody
    /\ responses = EmptyBody
    /\ next_request_id = 1
    /\ next_response_id = 1
    /\ session = [is_admin |-> FALSE, username |-> ""]
    /\ workers = NumProcs
    /\ calls_left = MaxPoolCalls
    /\ pc = [p \in Procs |-> "idle"]
    /\ call = [p \in Procs |-> NoCall]
    /\ local = [p \in Procs |-> NoLocal]
    /\ result = [p \in Procs |-> NoResult]
    /\ last_accept = NoRow
    /\ baseline = EmptyBody
    /\ checked_out = {}
    /\ pending = [c \in Connections |-> 0]
    /\ durable = 0
    /\ db_pc = [p \in Procs |-> "idle"]
    /\ db_call = [p \in Procs |-> NoDbCall]
    /\ db_conn = [p \in Procs |-> 0]
    /\ scope = [p \in Procs |-> NoScope]
    /\ connection_pool = NoPool
    /\ pools_created = 0
    /\ init_pc = [p \in Procs |-> "idle"]
    /\ init_args = [p \in Procs |-> NoPool]

NextPool ==
    \E p \in Procs :
        \/ \E args \in PoolSettings : init_connection_pool(p, args)
        \/ get_db_connection_init(p)
        \/ pool_create(p)

SpecPool == InitPool /\ [][NextPool]_vars

(***************************************************************************)
(* The validators of src/validation.py called on their own: one call, with *)
(* its arguments drawn from the sets below.                                *)
(***************************************************************************)
\* the string of n copies of the character c
RECURSIVE Repeat(_, _)
Repeat(c, n) ==
    IF n = 0 THEN ""
    ELSE IF n % 2 = 0 THEN LET half == Repeat(c, n \div 2) IN half \o half
    ELSE c \o Repeat(c, n - 1)

ItemNames ==
    {JStr(""), JStr("  "), JStr("a"), JStr(" a"), JStr("ab"), JStr("a<b>"),
     JStr(Repeat("x", MAX_ITEM_NAME)), JStr(Repeat("x", MAX_ITEM_NAME + 1))}

Quantities ==
    {JInt(-1), JInt(0), JInt(3), JInt(MAX_QUANTITY), JInt(MAX_QUANTITY + 1), JStr("5"), JNull}

Units == {JStr(""), JStr("kg"), JStr(Repeat("u", MAX_UNIT + 1))}

\* the dictionaries with any subset of the fields item_name, quantity_needed and unit
RequestData ==
    UNION {[fields -> ItemNames \cup Quantities \cup Units] :
              fields \in SUBSET {"item_name", "quantity_needed", "unit"}}

ValidRequestData ==
    {data \in RequestData :
        /\ Has(data, "item_name") => data["item_name"] \in ItemNames
        /\ Has(data, "quantity_needed") => data["quantity_needed"] \in Quantities
        /\ Has(data, "unit") => data["unit"] \in Units}

PageArguments ==
    {JNull, JStr(""), JStr("abc"), JStr("0"), JStr("1"), JStr(" 2 "), JStr("-1"),
     JStr("100"), JStr("101"), JInt(-1), JInt(0), JInt(1), JInt(100), JInt(101)}

\* texts with and without the patterns sanitize_html removes, some of them
\* with one pattern wrapped around another
Texts ==
    {"", "abc", "<script>x</ScRiPt>y", "<SCRIPT a>x</script >", "<iframe src=a></iframe>",
     "JAVASCRIPT:x", "a onerror=b onload=c", "javajavascript:script:alert(1)",
     "ononload=error=", "<scr<script></script>ipt>x</script>", "<scrjavascript:ipt>x</script>"}

ValidationCalls ==
    {[op |-> "validate_request_data", id |-> 0, data |-> data] : data \in ValidRequestData}
    \cup {[op |-> "sanitize_html", id |-> 0, data |-> [text |-> JStr(text)]] : text \in Texts}
    \cup {[op |-> "validate_pagination_params", id |-> 0,
           data |-> [page |-> page, per_page |-> per_page]] :
              page \in PageArguments, per_page \in PageArguments}

InitValidation ==
    /\ requests = EmptyBody
    /\ responses = EmptyBody
    /\ next_request_id = 1
    /\ next_response_id = 1
    /\ session = [is_admin |-> FALSE, username |-> ""]
    /\ workers = 1
    /\ calls_left = 1
    /\ pc = [p \in Procs |-> "idle"]
    /\ call \in {[p \in Procs |-> IF p = 1 THEN c ELSE NoCall] : c \in ValidationCalls}
    /\ local = [p \in Procs |-> NoLocal]
    /\ result = [p \in Procs |-> NoResult]
    /\ last_accept = NoRow
    /\ baseline = EmptyBody
    /\ InitDbLayer

\* the call is made: what it raises or returns is kept in result
CallValidator(p, op) ==
    /\ p <= workers
    /\ pc[p] = "idle"
    /\ call[p].op = op
    /\ calls_left > 0
    /\ calls_left' = calls_left - 1
    /\ pc' = [pc EXCEPT ![p] = "done"]
    /\ UNCHANGED <<db, session, workers, local, last_accept, dbvars, baseline>>

\* validate_request_data(data): raises, or returns None with data sanitized in place
call_validate_request_data(p) ==
    /\ CallValidator(p, "validate_request_data")
    /\ LET data  == call[p].data
           error == validate_request_error(data)
       IN  /\ result' = [result EXCEPT ![p] = [raised |-> error]]
           /\ call' = [call EXCEPT ![p].data =
                          IF error = "" THEN validate_request_data(data) ELSE data]

\* validate_pagination_params(page, per_page)
call_validate_pagination_params(p) ==
    /\ CallValidator(p, "validate_pagination_params")
    /\ result' = [result EXCEPT ![p] =
                     validate_pagination_params(call[p].data.page, call[p].data.per_page)]
    /\ UNCHANGED call

\* sanitize_html(text)
call_sanitize_html(p) ==
    /\ CallValidator(p, "sanitize_html")
    /\ result' = [result EXCEPT ![p] = [raised |-> "", text |-> sanitize_html(call[p].data.text.v)]]
    /\ UNCHANGED call

NextValidation ==
    \E p \in Procs :
        \/ call_validate_request_data(p)
        \/ call_validate_pagination_params(p)
        \/ call_sanitize_html(p)

SpecValidation == InitValidation /\ [][NextValidation]_vars

(***************************************************************************)
(* Properties.                                                             *)
(***************************************************************************)
\* worker p takes a call of handler op in this step
Begins(p, op) == pc[p] = "idle" /\ pc'[p] # "idle" /\ call'[p].op = op

\* worker p executes the statement at label in this step
Executes(p, label) == pc[p] = label /\ pc'[p] # label

Succeeded(p, op) == pc[p] = "done" /\ call[p].op = op /\ result[p].status = 200

ParentOf(response_id) == responses[response_id].request_id

\* C1: in every reachable state every stored request's quantity_needed is >= 0.
C1_QuantityNeededNeverNegative ==
    \A request_id \in DOMAIN requests : requests[request_id].quantity_needed >= 0

\* C2: when two Accept calls on two different responses of one request have both
\* read the same quantity_needed q, i.e. ran concurrently, and both have answered,
\* the committed quantity_needed is max(0, max(0, q - a) - b), the result of
\* running them one after the other.
C2_ConcurrentAcceptsSerialize ==
    \A p, o \in Procs :
        (/\ p # o
         /\ Succeeded(p, "accept") /\ Succeeded(o, "accept")
         /\ local[p].response.id # local[o].response.id
         /\ local[p].response.request_id = local[o].response.request_id
         /\ local[p].response.quantity_needed = local[o].response.quantity_needed)
        => requests[local[p].response.request_id].quantity_needed =
              Max(0, Max(0, local[p].response.quantity_needed
                            - local[p].response.quantity_available)
                     - local[o].response.quantity_available)

\* what C3 asks of one step of worker p: of the first statement and of the commit
C3_AcceptStep(p) ==
    /\ (/\ Begins(p, "accept")
        /\ session.is_admin
        /\ call'[p].id \in DOMAIN responses
        /\ ~responses[call'[p].id].accepted)
       => pc'[p] = "accept_update_response"
    /\ Executes(p, "accept_commit")
       => LET r == call[p].id
              q == requests[ParentOf(r)].quantity_needed
              a == responses[r].quantity_available
          IN  /\ ~responses[r].accepted
              /\ responses'[r].accepted
              /\ requests'[ParentOf(r)].quantity_needed = Max(0, q - a)
              /\ (a <= q => requests'[ParentOf(r)].quantity_needed = q - a)
              /\ (a > q => requests'[ParentOf(r)].quantity_needed = 0)
              /\ result'[p].status = 200
              /\ result'[p].new_quantity_needed = Max(0, q - a)

\* C3: an Accept of an existing response that is not accepted goes through (no
\* error answer), and its commit sets the response's accepted flag, sets the
\* parent's quantity_needed to max(0, q - a) for the q and a stored before, and
\* answers 200 with that value as new_quantity_needed.
C3_AcceptSetsFlooredQuantity == [][\A p \in Procs : C3_AcceptStep(p)]_vars

\* an Accept has answered 200 for a response offering more than was needed
C3_Witness ==
    \E p \in Procs :
        /\ Succeeded(p, "accept")
        /\ local[p].response.quantity_available > local[p].response.quantity_needed
        /\ requests[local[p].response.request_id].quantity_needed = 0

\* C4 as stated: when an Unaccept has answered 200 and the call that finished
\* just before it was the Accept of the same response, the request's
\* quantity_needed is the value that Accept found and the flag is false.
C4_RoundTripRestoresExactly ==
    \A p \in Procs :
        (Succeeded(p, "unaccept") /\ last_accept.id = call[p].id)
        => /\ requests[last_accept.request_id].quantity_needed = last_accept.quantity_needed
           /\ ~responses[call[p].id].accepted

\* C4 amended: Accept followed immediately by Unaccept of the same response
\* leaves the flag false and quantity_needed = max(q, a), for the pre-Accept
\* quantity_needed q and the response's quantity_available a; that is q
\* exactly when a <= q.
C4_RoundTripRestoresMax ==
    \A p \in Procs :
        (Succeeded(p, "unaccept") /\ last_accept.id = call[p].id)
        => /\ requests[last_accept.request_id].quantity_needed =
                 Max(last_accept.quantity_needed, last_accept.quantity_available)
           /\ (last_accept.quantity_available <= last_accept.quantity_needed
               => requests[last_accept.request_id].quantity_needed
                     = last_accept.quantity_needed)
           /\ ~responses[call[p].id].accepted

\* an Accept and then an Unaccept of one response, which offered no more than was needed
C4_Witness ==
    \E p \in Procs :
        /\ Succeeded(p, "unaccept")
        /\ last_accept.id = call[p].id
        /\ last_accept.quantity_available <= last_accept.quantity_needed
        /\ last_accept.quantity_needed > 0

\* what C5 asks of one step of worker p: of the first statement and of the commit
C5_UnacceptStep(p) ==
    /\ (/\ Begins(p, "unaccept")
        /\ session.is_admin
        /\ call'[p].id \in DOMAIN responses
        /\ responses[call'[p].id].accepted)
       => pc'[p] = "unaccept_update_response"
    /\ Executes(p, "unaccept_commit")
       => LET r == call[p].id
              q == requests[ParentOf(r)].quantity_needed
              a == responses[r].quantity_available
          IN  /\ responses[r].accepted
              /\ ~responses'[r].accepted
              /\ requests'[ParentOf(r)].quantity_needed = q + a
              /\ result'[p].status = 200
              /\ result'[p].new_quantity_needed = q + a

\* C5: an Unaccept of an existing accepted response goes through, and its commit
\* clears the response's accepted flag and sets the parent's quantity_needed to
\* exactly q + a for the q and a stored before, whatever happened earlier.
C5_UnacceptAddsBack == [][\A p \in Procs : C5_UnacceptStep(p)]_vars

\* the scenario of the specification, scaled: request 3, A = 2, B = 5;
\* Accept(A) gave 1, Accept(B) gave 0, Unaccept(B) gives 5
C5_Witness ==
    \E p \in Procs :
        /\ Succeeded(p, "unaccept")
        /\ local[p].response.quantity_needed = 0
        /\ local[p].response.quantity_available = 5
        /\ result[p].new_quantity_needed = 5
        /\ requests[local[p].response.request_id].quantity_needed = 5
        /\ \E other \in DOMAIN responses :
              /\ other # call[p].id
              /\ responses[other].accepted
              /\ responses[other].quantity_available = 2
              /\ responses[other].request_id = local[p].response.request_id

\* what C6 asks of one step of worker p
C6_AcceptStep(p) ==
    (/\ Begins(p, "accept")
     /\ session.is_admin
     /\ call'[p].id \in DOMAIN responses
     /\ responses[call'[p].id].accepted)
    => /\ pc'[p] = "done"
       /\ result'[p].status = 400
       /\ result'[p].error = "Response already accepted"
       /\ requests' = requests
       /\ responses' = responses

\* C6: an Accept of a response whose accepted flag is true answers 400 and
\* leaves the tables as they are.
C6_AcceptOfAcceptedIsConflict == [][\A p \in Procs : C6_AcceptStep(p)]_vars

C6_Witness ==
    \E p \in Procs :
        /\ pc[p] = "done" /\ call[p].op = "accept" /\ result[p].status = 400
        /\ responses[call[p].id].accepted

\* what C7 asks of one step of worker p
C7_UnacceptStep(p) ==
    (/\ Begins(p, "unaccept")
     /\ session.is_admin
     /\ call'[p].id \in DOMAIN responses
     /\ ~responses[call'[p].id].accepted)
    => /\ pc'[p] = "done"
       /\ result'[p].status = 400
       /\ result'[p].error = "Response is not accepted"
       /\ requests' = requests
       /\ responses' = responses

\* C7: an Unaccept of a response whose accepted flag is false answers 400 and
\* leaves the tables as they are.
C7_UnacceptOfUnacceptedIsConflict == [][\A p \in Procs : C7_UnacceptStep(p)]_vars

C7_Witness ==
    \E p \in Procs :
        /\ pc[p] = "done" /\ call[p].op = "unaccept" /\ result[p].status = 400
        /\ ~responses[call[p].id].accepted

\* what C8 asks of one step of worker p
C8_MissingStep(p) ==
    (/\ Begins(p, "accept") \/ Begins(p, "unaccept")
     /\ session.is_admin
     /\ call'[p].id \notin DOMAIN responses)
    => /\ pc'[p] = "done"
       /\ result'[p].status = 404
       /\ requests' = requests
       /\ responses' = responses

\* C8: Accept and Unaccept of a response_id that does not exist answer 404 and
\* leave every request and every response as they are.
C8_MissingResponseIsNotFound == [][\A p \in Procs : C8_MissingStep(p)]_vars

\* a 404 for an id that is not stored, while other responses are
C8_Witness ==
    \E p \in Procs :
        /\ pc[p] = "done" /\ call[p].op \in {"accept", "unaccept"}
        /\ result[p].status = 404
        /\ call[p].id \notin DOMAIN responses
        /\ DOMAIN responses # {}

\* what C9 asks of one step of worker p
C9_AcceptStep(p) ==
    Executes(p, "accept_commit") => ~responses[call[p].id].accepted

\* C9: an Accept commits, and answers 200, only for a response that is not
\* accepted at that moment: of two concurrent Accepts of one response the
\* second to commit must not succeed as well.
C9_AcceptNeverDoubleApplies == [][\A p \in Procs : C9_AcceptStep(p)]_vars

\* what C10 asks of one step of worker p
C10_CreateResponseStep(p) ==
    (/\ Begins(p, "create_response")
     /\ \/ call'[p].id \notin DOMAIN requests
        \/ requests[call'[p].id].status = "closed")
    => /\ pc'[p] = "done"
       /\ result'[p].status = 404
       /\ responses' = responses
       /\ next_response_id' = next_response_id
       /\ requests' = requests

\* C10: Create Response for a request that does not exist or is closed answers
\* 404 and inserts no row, whatever the body.
C10_CreateResponseOnClosedIsNotFound == [][\A p \in Procs : C10_CreateResponseStep(p)]_vars

\* a 404 for a request that is stored but closed
C10_Witness ==
    \E p \in Procs :
        /\ pc[p] = "done" /\ call[p].op = "create_response"
        /\ result[p].status = 404
        /\ call[p].id \in DOMAIN requests
        /\ requests[call[p].id].status = "closed"

\* what C11 asks of one step of worker p: the INSERT of Create Response
C11_InsertStep(p) ==
    (Executes(p, "create_response_insert") /\ responses' # responses)
    => /\ call[p].id \in DOMAIN requests
       /\ requests[call[p].id].status = "open"

\* C11: whenever Create Response commits its row, the parent request is stored
\* with status 'open' at that moment, also when an update that closes the
\* request runs between the open check and the INSERT.
C11_ResponseCommittedOnlyOnOpen == [][\A p \in Procs : C11_InsertStep(p)]_vars

\* what C12 asks of one step of worker p: of the open check and of the INSERT
C12_CreateResponseStep(p) ==
    (Begins(p, "create_response") \/ Executes(p, "create_response_insert"))
    => /\ DOMAIN requests' = DOMAIN requests
       /\ \A r \in DOMAIN requests :
             requests'[r].quantity_needed = requests[r].quantity_needed
       /\ \A r \in DOMAIN responses : responses'[r] = responses[r]
       /\ \A r \in DOMAIN responses' \ DOMAIN responses : responses'[r].accepted = FALSE
       /\ (pc'[p] = "done" /\ result'[p].status = 201)
             <=> DOMAIN responses' # DOMAIN responses

\* C12: no step of Create Response, whether the call ends in 201, 400 or 404,
\* changes the quantity_needed of any request, and the row a successful call
\* stores has accepted = false.
C12_CreateResponseKeepsQuantity == [][\A p \in Procs : C12_CreateResponseStep(p)]_vars

\* a response has been created for a request whose quantity_needed an earlier
\* call had lowered
C12_Witness ==
    \E p \in Procs :
        /\ pc[p] = "done" /\ call[p].op = "create_response"
        /\ result[p].status = 201
        /\ responses[result[p].id].accepted = FALSE
        /\ requests[call[p].id].quantity_needed < 3

\* C13: in every reachable state every stored request's quantity_needed is at
\* most 1,000,000.
C13_QuantityNeededAtMostMax ==
    \A request_id \in DOMAIN requests : requests[request_id].quantity_needed <= MAX_QUANTITY

\* what C14 asks of caller p once get_db_cursor has let its body run and has ended
C14_ScopeEnd(p) ==
    LET sc == scope[p]
    IN  (db_pc[p] = "done" /\ db_call[p].fn = "get_db_cursor" /\ sc.body # "none")
        => /\ (sc.body \in {"normal", "return"})
                 <=> (sc.commits = 1 \/ sc.commit_failed)
           /\ (sc.body \in {"normal", "return"} /\ ~sc.commit_failed)
                 => (sc.rollbacks = 0 /\ sc.durable = sc.writes /\ sc.failure = "")
           /\ (sc.body \in {"psycopg2.Error", "Exception"})
                 => (sc.rollbacks = 1 /\ sc.durable = 0 /\ sc.failure = sc.body)
           /\ sc.commit_failed
                 => (sc.rollbacks = 1 /\ sc.durable = 0 /\ sc.failure = "psycopg2.Error")
           /\ ~(sc.commits > 0 /\ sc.rollbacks > 0)
           /\ sc.commits <= 1

\* C14: a get_db_cursor scope calls conn.commit() exactly when its body ended
\* normally or by a return, and then all its writes are durable and nothing is
\* raised (unless the commit itself fails); when the body raised, nothing is
\* committed, the writes of the scope are rolled back and the same exception
\* leaves the scope; no scope both commits and rolls back.
C14_CursorCommitsOrRollsBack == \A p \in Procs : C14_ScopeEnd(p)

\* a scope with two writes has ended by an exception and was rolled back, after
\* an earlier scope had committed its two writes
C14_Witness ==
    \E p \in Procs :
        /\ db_pc[p] = "done" /\ db_call[p].fn = "get_db_cursor"
        /\ scope[p].body = "Exception" /\ scope[p].writes = 2
        /\ scope[p].rollbacks = 1
        /\ durable = 2

\* the callers that are inside a helper of src/db.py
InProgress == {p \in Procs : db_pc[p] \notin {"idle", "done"}}

\* C15: the connections checked out of the pool are exactly the ones held by
\* the callers that are inside get_db_cursor, execute_query or
\* execute_query_one; so there are never more than the pool's maximum, and
\* none when no helper is in progress, whichever way the helpers ended.
C15_ConnectionsAlwaysReturned ==
    /\ checked_out = {db_conn[p] : p \in InProgress}
    /\ Cardinality(checked_out) <= MaxConn
    /\ (InProgress = {} => checked_out = {})

\* C16: when execute_query has returned normally from a write statement, with
\* fetch=True or with fetch=False, the write is durable.
C16_ExecuteQueryWriteIsDurable ==
    \A p \in Procs :
        (/\ db_pc[p] = "done"
         /\ db_call[p].fn = "execute_query"
         /\ IsWrite(db_call[p].stmt)
         /\ scope[p].failure = "")
        => scope[p].durable = 1

\* worker p makes the call of the validator op in this step
Calls(p, op) == pc[p] = "idle" /\ pc'[p] = "done" /\ call[p].op = op

\* what C17 asks of one call of validate_request_data
C17_ValidateStep(p) ==
    Calls(p, "validate_request_data")
    => LET data == call[p].data
           item_name_ok ==
               Has(data, "item_name")
               => /\ Strip(data["item_name"].v) # ""
                  /\ Len(data["item_name"].v) >= 2
                  /\ Len(data["item_name"].v) <= 255
           quantity_ok ==
               Has(data, "quantity_needed")
               => /\ data["quantity_needed"].t = "int"
                  /\ data["quantity_needed"].v >= 0
                  /\ data["quantity_needed"].v <= 1000000
           unit_ok ==
               Has(data, "unit")
               => /\ Strip(data["unit"].v) # ""
                  /\ Len(data["unit"].v) <= 50
       IN  /\ (result'[p].raised = "") <=> (item_name_ok /\ quantity_ok /\ unit_ok)
           /\ DOMAIN call'[p].data = DOMAIN data

\* C17: validate_request_data raises exactly when a field that is present is
\* bad: quantity_needed that is not an integer of 0..1,000,000, item_name that
\* is empty after trim or not 2..255 characters long (or a bad unit); a field
\* that is absent never makes it raise.
C17_ValidateRequestChecksPresentFields == [][\A p \in Procs : C17_ValidateStep(p)]_vars

\* a dictionary without unit was accepted with quantity_needed = 1,000,000 and
\* an item_name of 255 characters
C17_Witness ==
    \E p \in Procs :
        /\ pc[p] = "done" /\ call[p].op = "validate_request_data"
        /\ result[p].raised = ""
        /\ DOMAIN call[p].data = {"item_name", "quantity_needed"}
        /\ call[p].data["quantity_needed"] = JInt(1000000)
        /\ Len(call[p].data["item_name"].v) = 255

\* an argument that carries no value: None, or the empty string of "?page="
Absent(x) == x \in {JNull, JStr("")}

\* a string that int() does not accept
NonNumeric(x) == x.t = "str" /\ x # JStr("") /\ ~ParseInt(x.v).ok

\* the number a supplied numeric argument stands for
Supplied(x) == IF x.t = "int" THEN x.v ELSE ParseInt(x.v).v

\* what C18 asks of the outcome of one call of validate_pagination_params
C18_PaginationOutcome(p) ==
    (pc[p] = "done" /\ call[p].op = "validate_pagination_params")
    => LET page     == call[p].data.page
           per_page == call[p].data.per_page
           out      == result[p]
       IN  /\ (NonNumeric(page) \/ NonNumeric(per_page)) => out.raised # ""
           /\ (~Absent(page) /\ ~NonNumeric(page) /\ Supplied(page) < 1) => out.raised # ""
           /\ (~Absent(per_page) /\ ~NonNumeric(per_page)
                  /\ (Supplied(per_page) < 1 \/ Supplied(per_page) > 100)) => out.raised # ""
           /\ out.raised = ""
                 => /\ out.page >= 1 /\ out.per_page >= 1 /\ out.per_page <= 100
                    /\ (Absent(page) => out.page = 1)
                    /\ (Absent(per_page) => out.per_page = 50)
                    /\ (~Absent(page) => out.page = Supplied(page))
                    /\ (~Absent(per_page) => out.per_page = Supplied(per_page))

\* C18: validate_pagination_params raises on a non-numeric argument, raises
\* whenever a supplied page is below 1 or a supplied per_page is outside 1..100,
\* uses page = 1 and per_page = 50 for an absent argument, and returns only
\* pairs with page >= 1 and 1 <= per_page <= 100.
C18_PaginationValidated == \A p \in Procs : C18_PaginationOutcome(p)

\* the fields of a request that Update Request may change
PatchFields == {"item_name", "quantity_needed", "unit", "description", "status"}

\* what C19 asks of one step of worker p: of the existence check and of the UPDATE
C19_UpdateStep(p) ==
    /\ (Begins(p, "update_request") /\ session.is_admin)
       => LET request_id == call'[p].id
              supplied   == DOMAIN call'[p].data \cap PatchFields
          IN  /\ requests' = requests /\ responses' = responses
              /\ request_id \notin DOMAIN requests
                    => (pc'[p] = "done" /\ result'[p].status = 404)
              /\ (request_id \in DOMAIN requests /\ supplied = {})
                    => (pc'[p] = "done" /\ result'[p].status = 400)
              /\ (request_id \in DOMAIN requests /\ supplied # {})
                    => pc'[p] = "update_request_execute"
    /\ Executes(p, "update_request_execute")
       => LET request_id == call[p].id
              data       == call[p].data
              supplied   == DOMAIN data \cap PatchFields
          IN  /\ responses' = responses
              /\ DOMAIN requests' = DOMAIN requests
              /\ \A other \in DOMAIN requests \ {request_id} :
                    requests'[other] = requests[other]
              /\ \/ /\ result'[p].status = 200
                    /\ \A f \in DOMAIN requests[request_id] :
                          requests'[request_id][f] =
                              IF f \in supplied THEN data[f].v ELSE requests[request_id][f]
                 \/ /\ result'[p].status = 500
                    /\ "quantity_needed" \in supplied /\ data["quantity_needed"].t # "int"
                    /\ requests' = requests

\* C19: Update Request on a missing id answers 404 and with no patchable field
\* 400, changing nothing; otherwise its UPDATE sets exactly the supplied fields
\* of that request to the supplied values (or fails as a whole on a value the
\* column does not take) and leaves the other fields, the other requests and
\* all responses as they were.
C19_UpdateIsPartialPatch == [][\A p \in Procs : C19_UpdateStep(p)]_vars

\* request 1 has been closed by an update that left its quantity alone, while a
\* second request is stored
C19_Witness ==
    \E p \in Procs :
        /\ pc[p] = "done" /\ call[p].op = "update_request" /\ result[p].status = 200
        /\ call[p].data = [status |-> JStr("closed")]
        /\ requests[call[p].id].status = "closed"
        /\ requests[call[p].id].quantity_needed = 600000
        /\ Cardinality(DOMAIN requests) = 2

\* C20: in every reachable state every stored request's status is 'open' or
\* 'closed'.
C20_StatusIsOpenOrClosed ==
    \A request_id \in DOMAIN requests : requests[request_id].status \in {"open", "closed"}

\* what C21 asks of one step: of the rows stored before it and after it
C21_ResponseStep ==
    /\ \A r \in DOMAIN responses \cap DOMAIN responses' :
          responses'[r].quantity_available = responses[r].quantity_available
    /\ \A r \in DOMAIN responses' :
          /\ responses'[r].quantity_available \in Int
          /\ responses'[r].quantity_available > 0
          /\ responses'[r].quantity_available <= 1000000

\* C21: every stored response's quantity_available is an integer in
\* 1..1,000,000, from the first state on, and no step of any handler (Create
\* Response, Accept, Unaccept, Update Request) changes the quantity_available of
\* a response that is stored.
C21_QuantityAvailableImmutable ==
    /\ \A r \in DOMAIN responses : responses[r].quantity_available \in 1..1000000
    /\ [][C21_ResponseStep]_vars

\* a second response has been created after the first one, offering 5, was
\* accepted: the first one still offers 5
C21_Witness ==
    \E p \in Procs :
        /\ pc[p] = "done" /\ call[p].op = "create_response"
        /\ result[p].status = 201 /\ result[p].id = 2
        /\ responses[1].accepted
        /\ responses[1].quantity_available = 5
        /\ requests[1].quantity_needed = 599995

\* TRUE when one of the patterns sanitize_html removes occurs in s
HasDangerousPattern(s) ==
    \/ \E tag \in {"script", "iframe"} : FindTagBetween(s, 1, Len(s), tag) # 0
    \/ \E lit \in {"javascript:", "onerror=", "onload="} : FindFrom(s, 1, lit) # 0

\* C22: the text sanitize_html returns contains none of the patterns it removes
\* (no script or iframe element, no 'javascript:', 'onerror=' or 'onload=',
\* in any case of letters), and sanitize_html applied to it returns it unchanged.
C22_SanitizeLeavesNoPattern ==
    \A p \in Procs :
        (pc[p] = "done" /\ call[p].op = "sanitize_html")
        => /\ ~HasDangerousPattern(result[p].text)
           /\ sanitize_html(result[p].text) = result[p].text

\* the calls that need an admin's session
AdminOps == {"get_requests", "create_request", "get_request", "update_request",
             "delete_request", "accept", "unaccept"}

\* what C23 asks of one step of worker p
C23_AuthStep(p) ==
    /\ ((\E op \in AdminOps : Begins(p, op)) /\ ~session.is_admin)
       => /\ pc'[p] = "done"
          /\ result'[p].status = 401
          /\ requests' = requests
          /\ responses' = responses
    /\ (Executes(p, pc[p]) /\ ~session.is_admin /\ session'.is_admin)
       => /\ Begins(p, "login")
          /\ call'[p].data = [username |-> JStr(ADMIN_USERNAME),
                               password |-> JStr(ADMIN_PASSWORD)]
    /\ Begins(p, "logout") => ~session'.is_admin

\* C23: a call of an admin operation made without an admin session is answered
\* 401 and leaves requests and responses as they are; the session becomes an
\* admin's only in a login with the configured username and password, and is
\* no admin's after a logout.
C23_AdminRequiresSession == [][\A p \in Procs : C23_AuthStep(p)]_vars

\* what C24 asks of one step of worker p
C24_AtomicStep(p) ==
    /\ ((Executes(p, "accept_update_request") \/ Executes(p, "unaccept_update_request"))
           /\ pc'[p] = "done")
       => LET response == local[p].response
          IN  /\ result'[p].status = 500
              /\ responses' = responses
              /\ requests' = requests
              /\ responses'[response.id].accepted = response.accepted
              /\ requests'[response.request_id].quantity_needed = response.quantity_needed
    /\ \A r \in DOMAIN responses \cap DOMAIN responses' :
          responses'[r].accepted # responses[r].accepted
          => LET q == requests[ParentOf(r)].quantity_needed
                 a == responses[r].quantity_available
             IN  requests'[ParentOf(r)].quantity_needed =
                     IF responses'[r].accepted THEN Max(0, q - a) ELSE q + a

\* C24: when the UPDATE of the request fails in Accept or Unaccept, after the
\* UPDATE of the response's flag, the call answers 500 and the stored flag and
\* quantity_needed are the ones the call found; and no step changes a stored
\* accepted flag without setting the parent's quantity_needed to the matching
\* value in the same step.
C24_AcceptUnacceptAtomic == [][\A p \in Procs : C24_AtomicStep(p)]_vars

\* an Unaccept has failed at the UPDATE of the request: the response is still
\* accepted and the quantity is the one its Accept left
C24_Witness ==
    \E p \in Procs :
        /\ pc[p] = "done" /\ call[p].op = "unaccept"
        /\ result[p].status = 500 /\ result[p].error = "UPDATE requests failed"
        /\ responses[call[p].id].accepted
        /\ requests[ParentOf(call[p].id)].quantity_needed = 0

\* C25: at most one pool object is ever built, whatever the calls of
\* init_connection_pool and get_db_connection and however the threads
\* interleave, and once _connection_pool is set no step changes it or its
\* minconn and maxconn.
C25_PoolInitializedOnce ==
    /\ [](pools_created <= 1)
    /\ [][connection_pool # NoPool => connection_pool' = connection_pool]_vars

\* no call is being served
Quiescent == \A p \in Procs : pc[p] = "idle"

\* C26: between the calls of a sequential execution, every request whose
\* quantity_needed no update has written and for which no Accept was floored at
\* zero satisfies quantity_needed + (sum of quantity_available over its
\* accepted responses) = q0, the quantity it was created with.
C26_Conservation ==
    Quiescent
    => \A r \in DOMAIN requests :
          baseline[r].exact
          => requests[r].quantity_needed + AcceptedSum(r) = baseline[r].q0

\* a request created with 3 has had a response offering 2 accepted, and other
\* calls after that: 1 + 2 = 3
C26_Witness ==
    /\ Quiescent
    /\ \E r \in DOMAIN requests :
          /\ baseline[r] = [q0 |-> 3, exact |-> TRUE]
          /\ requests[r].quantity_needed = 1
          /\ AcceptedSum(r) = 2
          /\ requests[r].status = "closed"

\* what C27 asks of one step of worker p: of the commit of Accept and of Unaccept
C27_FrameStep(p) ==
    (Executes(p, "accept_commit") \/ Executes(p, "unaccept_commit"))
    => LET r      == call[p].id
           parent == ParentOf(r)
       IN  /\ result'[p].status = 200
           /\ DOMAIN responses' = DOMAIN responses
           /\ DOMAIN requests' = DOMAIN requests
           /\ \A o \in DOMAIN responses \ {r} : responses'[o] = responses[o]
           /\ \A f \in DOMAIN responses[r] \ {"accepted"} : responses'[r][f] = responses[r][f]
           /\ \A o \in DOMAIN requests \ {parent} : requests'[o] = requests[o]
           /\ \A f \in DOMAIN requests[parent] \ {"quantity_needed"} :
                 requests'[parent][f] = requests[parent][f]

\* C27: the commit of a successful Accept or Unaccept of response r changes
\* nothing but r's accepted flag and the quantity_needed of r's parent: every
\* other response, every other field of r, every other request, and the
\* status, item_name, unit and description of the parent stay as they were.
C27_AcceptUnacceptFrame == [][\A p \in Procs : C27_FrameStep(p)]_vars

\* response 2 has been accepted, bringing the parent's quantity_needed to 0,
\* while response 1 was accepted already and a second request is stored
C27_Witness ==
    \E p \in Procs :
        /\ Succeeded(p, "accept") /\ call[p].id = 2
        /\ responses[1].accepted /\ responses[2].accepted
        /\ requests[1].quantity_needed = 0 /\ requests[1].status = "open"
        /\ Cardinality(DOMAIN requests) = 2

\* C28: when an Accept or Unaccept of a response of request R and an update
\* that sets R's quantity_needed to e have both answered 200, the committed
\* quantity_needed is the outcome of one of the two serial orders: e (the
\* update last), or max(0, e - a) for Accept and e + a for Unaccept (the update
\* first), never a value computed from the quantity read before the update.
C28_EditAndAcceptSerialize ==
    \A p, o \in Procs :
        (/\ p # o
         /\ Succeeded(p, "accept") \/ Succeeded(p, "unaccept")
         /\ Succeeded(o, "update_request")
         /\ Has(call[o].data, "quantity_needed")
         /\ call[o].id = local[p].response.request_id
         /\ call[o].id \in DOMAIN requests)
        => LET e == call[o].data["quantity_needed"].v
               a == local[p].response.quantity_available
           IN  requests[call[o].id].quantity_needed \in
                   {e, IF call[p].op = "accept" THEN Max(0, e - a) ELSE e + a}

\* C29: under fair scheduling every Accept and Unaccept call, however many run
\* at once on the responses of one request, ends with an answer and with its
\* connection back in the pool: from some point on no call is being served
\* and no connection is checked out.
C29_CallsFinishAndReleaseConnections == <>[](Quiescent /\ checked_out = {})

====
